---- MODULE Spec2Model ----
(***************************************************************************)
(* Textile production tracker: the stock-usage allocation engine           *)
(* (calculateStockUsage) and the derived status resolver (derivedOrders)   *)
(* of src/hooks/useTextileData.ts, over the in-memory snapshot of orders,  *)
(* stock entries and cutting reports.                                      *)
(*                                                                         *)
(* Dates are modelled by their getTime() value (a positive integer), ids   *)
(* by opaque values, each uuidv4() by the fresh value <<run, k>>: the k-th *)
(* uuid drawn by the run-th execution of calculateStockUsage.              *)
(***************************************************************************)
EXTENDS Integers, Sequences, FiniteSets, TLC

VARIABLES isLoaded, orders, allStockEntries, cuttingReports, stockUsage, prevStockUsage, renders,
          prevOrders, call, uuids, defectReasons, producers, db, requests

\* prevOrders is the orders array before the last handler ran, call the last
\* handler with its arguments, uuids the number of uuidv4() values the
\* handlers have drawn
\* defectReasons and producers are the lists of the snapshot, db the tables of
\* the server's one database connection, requests the requests the server is
\* handling
vars == <<isLoaded, orders, allStockEntries, cuttingReports, stockUsage, prevStockUsage, renders,
          prevOrders, call, uuids, defectReasons, producers, db, requests>>

----------------------------------------------------------------------------
(* Constants of the program *)

SIZES_ORDER == <<"xs", "s", "m", "l", "xl", "xxl">>

SizeKeys == {SIZES_ORDER[i] : i \in 1..Len(SIZES_ORDER)}

emptySizes == [z \in SizeKeys |-> 0]

PendingCut == "Kesim Bekleniyor"
InProgress == "Devam Ediyor"
\* the status strings, written without the Turkish letters
Completed == "Tamamlandi"
Cancelled == "Iptal Edildi"

ProductionStatus == {PendingCut, InProgress, Completed, Cancelled}

Undefined == "undefined"

\* an undefined completionDate; every date is a getTime() value above 0
NoDate == 0

----------------------------------------------------------------------------
(* Small helpers standing for JavaScript built-ins *)

Min(a, b) == IF a < b THEN a ELSE b

RECURSIVE SumSeq(_)
SumSeq(s) == IF s = <<>> THEN 0 ELSE s[1] + SumSeq(Tail(s))

\* Object.values(sizes).reduce((s, q) => s + q, 0)
SumSizes(sizes) == SumSeq([i \in 1..Len(SIZES_ORDER) |-> sizes[SIZES_ORDER[i]]])

RECURSIVE MaxSeq(_)
MaxSeq(s) == IF Len(s) = 1 THEN s[1]
             ELSE LET m == MaxSeq(Tail(s)) IN IF s[1] >= m THEN s[1] ELSE m

\* Array.prototype.sort with the comparator (a, b) => a.t - b.t: a stable
\* ascending sort on the field t.
RECURSIVE SortByT(_)
SortByT(s) ==
    IF s = <<>> THEN <<>>
    ELSE LET rest == SortByT(SubSeq(s, 1, Len(s) - 1))
             e == s[Len(s)]
             p == Cardinality({i \in 1..Len(rest) : rest[i].t <= e.t})
         IN SubSeq(rest, 1, p) \o <<e>> \o SubSeq(rest, p + 1, Len(rest))

----------------------------------------------------------------------------
(* calculateStockUsage *)

\* `${entry.productName}-${entry.color}`
StockKey(productName, color) == productName \o "-" \o color

\* availableStock: the entries sorted by date, each with its remaining
\* quantities; the bucket of a key is the subsequence with that key.
availableStockUnsorted(stockEntries) ==
    [i \in 1..Len(stockEntries) |->
        [entry |-> stockEntries[i],
         remainingNormal |-> stockEntries[i].normalSizes,
         remainingDefective |-> stockEntries[i].defectiveSizes]]

availableStock(stockEntries) ==
    LET sorted == SortByT([i \in 1..Len(stockEntries) |->
                              [t |-> stockEntries[i].date, v |-> stockEntries[i]]])
    IN [i \in 1..Len(sorted) |->
          [entry |-> sorted[i].v,
           remainingNormal |-> sorted[i].v.normalSizes,
           remainingDefective |-> sorted[i].v.defectiveSizes]]

RECURSIVE IndexesOfKey(_, _, _)
IndexesOfKey(avail, key, i) ==
    IF i > Len(avail) THEN <<>>
    ELSE (IF StockKey(avail[i].entry.productName, avail[i].entry.color) = key
          THEN <<i>> ELSE <<>>) \o IndexesOfKey(avail, key, i + 1)

\* if (report.isConfirmed): the reports that count as cut
CountsAnyReport(report) == TRUE

CountsAsCut(report) == report.isConfirmed

AddReportSizes(sizes, report) == [z \in SizeKeys |-> sizes[z] + report.sizes[z]]

\* cutQuantitiesByGroup, as the sequence of the Map's entries in insertion order
RECURSIVE cutQuantitiesByGroup(_)
cutQuantitiesByGroup(reports) ==
    IF reports = <<>> THEN <<>>
    ELSE LET prev == cutQuantitiesByGroup(SubSeq(reports, 1, Len(reports) - 1))
             report == reports[Len(reports)]
             has == \E i \in 1..Len(prev) : prev[i].groupId = report.groupId
             withKey == IF has THEN prev
                        ELSE Append(prev, [groupId |-> report.groupId, sizes |-> emptySizes,
                                           productName |-> report.productName,
                                           color |-> report.color])
         IN IF CountsAsCut(report)
            THEN [i \in 1..Len(withKey) |->
                    IF withKey[i].groupId = report.groupId
                    THEN [withKey[i] EXCEPT !.sizes = AddReportSizes(@, report)]
                    ELSE withKey[i]]
            ELSE prev

ordersByGroup(os, groupId) == SelectSeq(os, LAMBDA o : o.groupId = groupId)

\* new Date(ordersByGroup.get(g)?.[0]?.createdDate || 0).getTime()
GroupSortDate(os, groupId) ==
    LET groupOrders == ordersByGroup(os, groupId)
    IN IF groupOrders = <<>> THEN 0 ELSE groupOrders[1].createdDate

sortedGroupIds(os, cutByGroup) ==
    LET sorted == SortByT([i \in 1..Len(cutByGroup) |->
                             [t |-> GroupSortDate(os, cutByGroup[i].groupId), v |-> cutByGroup[i]]])
    IN [i \in 1..Len(sorted) |-> sorted[i].v]

\* findOrCreateUsageEntry followed by the += on the normal or defective field
FindUsage(usage, orderId, stockEntryId) ==
    {i \in 1..Len(usage) : usage[i].orderId = orderId /\ usage[i].stockEntryId = stockEntryId}

\* usage.find(...) returned a record
neverFound(usage, orderId, stockEntryId) == FALSE

hasUsage(usage, orderId, stockEntryId) == FindUsage(usage, orderId, stockEntryId) # {}

findOrCreateUsageEntry(usage, orderId, stockEntryId, run) ==
    IF hasUsage(usage, orderId, stockEntryId) THEN usage
    ELSE Append(usage, [id |-> <<run, Len(usage) + 1>>,
                        orderId |-> orderId,
                        stockEntryId |-> stockEntryId,
                        usedSizes |-> emptySizes,
                        usedNormalSizes |-> emptySizes,
                        usedDefectiveSizes |-> emptySizes])

AddToUsage(usage, orderId, stockEntryId, isDefective, size, qty, run) ==
    LET u == findOrCreateUsageEntry(usage, orderId, stockEntryId, run)
        i == CHOOSE j \in FindUsage(u, orderId, stockEntryId) :
                \A k \in FindUsage(u, orderId, stockEntryId) : j <= k
    IN IF isDefective THEN [u EXCEPT ![i].usedDefectiveSizes[size] = @ + qty]
       ELSE [u EXCEPT ![i].usedNormalSizes[size] = @ + qty]

\* const canTake = Math.min(remainingToDistribute, orderRemaining[size])
canTakeUnclamped(remainingToDistribute, orderRemaining) == remainingToDistribute

canTakeOf(remainingToDistribute, orderRemaining) == Min(remainingToDistribute, orderRemaining)

\* st = [avail, usage, remainingOrdered]
RECURSIVE DistributeLoop(_, _, _, _, _, _, _, _)
DistributeLoop(st, groupOrders, i, remainingToDistribute, isDefective, stockEntryId, size, run) ==
    IF i > Len(groupOrders) \/ remainingToDistribute = 0
    THEN [st |-> st, rem |-> remainingToDistribute]
    ELSE LET order == groupOrders[i]
             orderRemaining == st.remainingOrdered[order.id]
         IN IF orderRemaining[size] > 0
            THEN LET canTake == canTakeOf(remainingToDistribute, orderRemaining[size])
                     st1 == [st EXCEPT
                               !.usage = AddToUsage(@, order.id, stockEntryId, isDefective,
                                                    size, canTake, run),
                               !.remainingOrdered[order.id][size] = @ - canTake]
                 IN DistributeLoop(st1, groupOrders, i + 1, remainingToDistribute - canTake,
                                   isDefective, stockEntryId, size, run)
            ELSE DistributeLoop(st, groupOrders, i + 1, remainingToDistribute,
                                isDefective, stockEntryId, size, run)

\* groupOrders[0], the order that receives what no order has room for
lastOrder(groupOrders) == groupOrders[Len(groupOrders)]

overflowOrder(groupOrders) == groupOrders[1]

distributeUsage(st, groupOrders, qty, isDefective, stockEntryId, size, run) ==
    LET r == DistributeLoop(st, groupOrders, 1, qty, isDefective, stockEntryId, size, run)
    IN IF r.rem > 0 /\ Len(groupOrders) > 0
       THEN [r.st EXCEPT !.usage = AddToUsage(@, overflowOrder(groupOrders).id, stockEntryId,
                                              isDefective, size, r.rem, run)]
       ELSE r.st

\* Math.min(needed, stock.remainingNormal[size]), and the same for defective
takeUnclamped(needed, remaining) == needed

takeOf(needed, remaining) == Min(needed, remaining)

\* the two walks over stockForKey of one size, by isDefective: normal stock
\* first, defective stock for what is still needed
DefectiveFirst == <<TRUE, FALSE>>

WalkOrder == <<FALSE, TRUE>>

\* one of the two walks over stockForKey
RECURSIVE TakeLoop(_, _, _, _, _, _, _, _)
TakeLoop(st, needed, stockForKey, j, isDefective, groupOrders, size, run) ==
    IF j > Len(stockForKey) \/ needed = 0 THEN [st |-> st, needed |-> needed]
    ELSE LET k == stockForKey[j]
             stock == st.avail[k]
             remaining == IF isDefective THEN stock.remainingDefective[size]
                          ELSE stock.remainingNormal[size]
             take == takeOf(needed, remaining)
         IN IF take > 0
            THEN LET st1 == IF isDefective
                            THEN [st EXCEPT !.avail[k].remainingDefective[size] = @ - take]
                            ELSE [st EXCEPT !.avail[k].remainingNormal[size] = @ - take]
                     st2 == distributeUsage(st1, groupOrders, take, isDefective,
                                            stock.entry.id, size, run)
                 IN TakeLoop(st2, needed - take, stockForKey, j + 1, isDefective,
                             groupOrders, size, run)
            ELSE TakeLoop(st, needed, stockForKey, j + 1, isDefective, groupOrders, size, run)

RECURSIVE SizeLoop(_, _, _, _, _, _)
SizeLoop(st, cutData, stockForKey, groupOrders, n, run) ==
    IF n > Len(SIZES_ORDER) THEN st
    ELSE LET size == SIZES_ORDER[n]
             needed == cutData.sizes[size]
         IN IF needed = 0 THEN SizeLoop(st, cutData, stockForKey, groupOrders, n + 1, run)
            ELSE LET first == TakeLoop(st, needed, stockForKey, 1, WalkOrder[1],
                                       groupOrders, size, run)
                     after == IF first.needed > 0
                              THEN TakeLoop(first.st, first.needed, stockForKey, 1, WalkOrder[2],
                                            groupOrders, size, run).st
                              ELSE first.st
                 IN SizeLoop(after, cutData, stockForKey, groupOrders, n + 1, run)

\* if (groupOrders.length === 0) continue
skipsNoGroup(groupOrders) == FALSE

skipsGroup(groupOrders) == Len(groupOrders) = 0

RECURSIVE GroupLoop(_, _, _, _, _)
GroupLoop(st, os, groups, g, run) ==
    IF g > Len(groups) THEN st
    ELSE LET cutData == groups[g]
             groupOrders == ordersByGroup(os, cutData.groupId)
         IN IF skipsGroup(groupOrders) THEN GroupLoop(st, os, groups, g + 1, run)
            ELSE LET key == StockKey(cutData.productName, cutData.color)
                     stockForKey == IndexesOfKey(st.avail, key, 1)
                     ids == {groupOrders[i].id : i \in 1..Len(groupOrders)}
                     remainingOrdered ==
                         [id \in ids |->
                            (CHOOSE o \in {groupOrders[i] : i \in 1..Len(groupOrders)} :
                                o.id = id).sizes]
                     st1 == [st EXCEPT !.remainingOrdered = remainingOrdered]
                 IN GroupLoop(SizeLoop(st1, cutData, stockForKey, groupOrders, 1, run),
                              os, groups, g + 1, run)

calculateStockUsage(os, stockEntries, reports, run) ==
    LET st0 == [avail |-> availableStock(stockEntries), usage |-> <<>>,
                remainingOrdered |-> <<>>]
        groups == sortedGroupIds(os, cutQuantitiesByGroup(reports))
        usage == GroupLoop(st0, os, groups, 1, run).usage
    IN [i \in 1..Len(usage) |->
          [usage[i] EXCEPT !.usedSizes =
              [z \in SizeKeys |-> usage[i].usedNormalSizes[z] + usage[i].usedDefectiveSizes[z]]]]

\* stockEntries = allStockEntries.filter(e => !e.isArchived)
\* allStockEntries.filter(e => !e.isArchived)
everyEntry(entries) == entries

activeEntries(entries) == SelectSeq(entries, LAMBDA e : ~e.isArchived)

stockEntries == activeEntries(allStockEntries)

----------------------------------------------------------------------------
(* derivedOrders: the status resolver *)

\* orders.find(o => o.id === su.orderId): whether it finds an order, and the
\* first one it finds
HasOrder(os, orderId) == \E i \in 1..Len(os) : os[i].id = orderId

FindOrder(os, orderId) ==
    os[CHOOSE i \in 1..Len(os) :
          os[i].id = orderId /\ \A j \in 1..Len(os) : os[j].id = orderId => i <= j]

\* the usage records whose order exists and belongs to the group, in order
UsageOfGroup(os, usage, groupId) ==
    SelectSeq(usage, LAMBDA su : /\ HasOrder(os, su.orderId)
                                 /\ FindOrder(os, su.orderId).groupId = groupId)

\* usageMapByGroupId.get(groupId) || 0
usageMapByGroupId(os, usage, groupId) ==
    LET us == UsageOfGroup(os, usage, groupId)
    IN SumSeq([i \in 1..Len(us) |-> SumSizes(us[i].usedSizes)])

\* groupStockDates.get(groupId): the dates of the stock entries of the
\* group's usage records that stockEntryMap knows
allStockDates(os, usage, stock, groupId) == [i \in 1..Len(stock) |-> stock[i].date]

groupStockDates(os, usage, stock, groupId) ==
    LET us == UsageOfGroup(os, usage, groupId)
        known == SelectSeq(us, LAMBDA su : \E i \in 1..Len(stock) : stock[i].id = su.stockEntryId)
    IN [i \in 1..Len(known) |->
          stock[CHOOSE j \in 1..Len(stock) :
                   /\ stock[j].id = known[i].stockEntryId
                   /\ \A k \in 1..Len(stock) : stock[k].id = known[i].stockEntryId => k <= j].date]

\* if (r.isConfirmed) cuttingConfirmedMap.set(r.groupId, true)
cuttingReportedMap(reports, groupId) ==
    \E i \in 1..Len(reports) : reports[i].groupId = groupId

cuttingConfirmedMap(reports, groupId) ==
    \E i \in 1..Len(reports) : reports[i].isConfirmed /\ reports[i].groupId = groupId

totalCutByGroupId(reports, groupId) ==
    LET rs == SelectSeq(reports, LAMBDA r : r.isConfirmed /\ r.groupId = groupId)
    IN SumSeq([i \in 1..Len(rs) |-> SumSizes(rs[i].sizes)])

\* if (order.status !== 'Iptal Edildi'): the orders the rules are skipped for
skipsNone(order) == FALSE

skipsRules(order) == order.status = Cancelled

\* isCutConfirmed && totalCutForGroup > 0 && totalProducedForGroup >= totalCutForGroup
meetsCompletionStrict(isCutConfirmed, totalCutForGroup, totalProducedForGroup) ==
    isCutConfirmed /\ totalCutForGroup > 0 /\ totalProducedForGroup > totalCutForGroup

meetsCompletion(isCutConfirmed, totalCutForGroup, totalProducedForGroup) ==
    isCutConfirmed /\ totalCutForGroup > 0 /\ totalProducedForGroup >= totalCutForGroup

\* newCompletionDate = undefined, of an order that is no longer completed
keptCompletionDate(order) == order.completionDate

clearedCompletionDate(order) == NoDate

\* else if (isCutConfirmed && order.status === 'Kesim Bekleniyor')
startsUnconfirmed(isCutConfirmed, order) == order.status = PendingCut

startsProgress(isCutConfirmed, order) == isCutConfirmed /\ order.status = PendingCut

\* the body of orders.map(order => ...); now is the value of new Date()
ResolveOrder(order, os, usage, reports, stock, now) ==
    LET totalProducedForGroup == usageMapByGroupId(os, usage, order.groupId)
        totalCutForGroup == totalCutByGroupId(reports, order.groupId)
        isCutConfirmed == cuttingConfirmedMap(reports, order.groupId)
        stockDates == groupStockDates(os, usage, stock, order.groupId)
    IN IF ~skipsRules(order)
       THEN IF meetsCompletion(isCutConfirmed, totalCutForGroup, totalProducedForGroup)
            THEN IF order.status # Completed
                 THEN [order EXCEPT !.status = Completed,
                                    !.completionDate = IF Len(stockDates) > 0
                                                       THEN MaxSeq(stockDates) ELSE now]
                 ELSE order
            ELSE IF order.status = Completed
                 THEN [order EXCEPT !.status = InProgress,
                                    !.completionDate = clearedCompletionDate(order)]
                 ELSE IF startsProgress(isCutConfirmed, order)
                      THEN [order EXCEPT !.status = InProgress]
                      ELSE order
       ELSE order

DerivedOrders(loaded, os, usage, reports, stock, now) ==
    IF ~loaded \/ Len(os) = 0 THEN os
    ELSE [i \in 1..Len(os) |-> ResolveOrder(os[i], os, usage, reports, stock, now)]

derivedOrders(now) ==
    DerivedOrders(isLoaded, orders, stockUsage, cuttingReports, stockEntries, now)

----------------------------------------------------------------------------
(* reassignMultipleParts *)

\* the producer of a row loaded from the database column that holds NULL
Null == "null"

UNASSIGNED == "UNASSIGNED"

Uuid(n) == <<"uuid", n>>

\* the index Array.prototype.find stops at, 0 when it finds nothing
\* of the indexes that satisfy the test
FirstIndex(hits) ==
    IF hits = {} THEN 0 ELSE CHOOSE i \in hits : \A j \in hits : i <= j

\* newProducerName === 'UNASSIGNED' ? undefined : newProducerName
targetProducerOf(newProducerName) ==
    IF newProducerName = UNASSIGNED THEN Undefined ELSE newProducerName

\* targetProducer || 'UNASSIGNED'
ProducerLabel(producer) == IF producer = Undefined THEN UNASSIGNED ELSE producer

\* sourceOrder.producer === targetProducer: null and undefined differ
sameProducerLoose(producer, targetProducer) ==
    \/ producer = targetProducer
    \/ producer \in {Undefined, Null} /\ targetProducer \in {Undefined, Null}

sameProducer(producer, targetProducer) == producer = targetProducer

\* sourceOrder.sizes[part.size] = 0
keepsSource(q) == q

zeroesSource(q) == 0

\* targetOrder.sizes[part.size] = (targetOrder.sizes[part.size] || 0) + quantityToMove
targetOverwritten(held, quantityToMove) == quantityToMove

targetQuantity(held, quantityToMove) == held + quantityToMove

\* one turn of the loop over the parts; n uuids have been drawn so far
MovePart(nextOrders, part, targetProducer, n) ==
    LET si == FirstIndex({i \in 1..Len(nextOrders) : nextOrders[i].id = part.orderId})
    IN IF si = 0 THEN nextOrders
       ELSE IF sameProducer(nextOrders[si].producer, targetProducer) THEN nextOrders
       ELSE LET sourceOrder == nextOrders[si]
                quantityToMove == sourceOrder.sizes[part.size]
                ti == FirstIndex({i \in 1..Len(nextOrders) :
                                     /\ nextOrders[i].groupId = sourceOrder.groupId
                                     /\ sameProducer(nextOrders[i].producer, targetProducer)})
                created == [sourceOrder EXCEPT
                               !.id = <<sourceOrder.groupId, ProducerLabel(targetProducer),
                                        Uuid(n + 1)>>,
                               !.producer = targetProducer,
                               !.sizes = emptySizes,
                               !.totalQuantity = 0]
                withTarget == IF ti = 0 THEN Append(nextOrders, created) ELSE nextOrders
                t == IF ti = 0 THEN Len(withTarget) ELSE ti
            IN IF quantityToMove = 0 THEN nextOrders
               ELSE [withTarget EXCEPT ![t].sizes[part.size] = targetQuantity(@, quantityToMove),
                                       ![si].sizes[part.size] = zeroesSource(quantityToMove)]

\* the uuids drawn by the loop so far: one for each row it pushed
RECURSIVE MoveParts(_, _, _, _, _)
MoveParts(nextOrders, parts, k, targetProducer, n) ==
    IF k > Len(parts) THEN nextOrders
    ELSE LET moved == MovePart(nextOrders, parts[k], targetProducer, n)
         IN MoveParts(moved, parts, k + 1, targetProducer, n + Len(moved) - Len(nextOrders))

\* .filter(order => order.totalQuantity > 0)
keepsEmptyRows(order) == TRUE

keepsRow(order) == order.totalQuantity > 0

finalOrdersOf(nextOrders) ==
    SelectSeq([i \in 1..Len(nextOrders) |->
                  [nextOrders[i] EXCEPT !.totalQuantity = SumSizes(nextOrders[i].sizes)]],
              keepsRow)

affectedOrdersOf(os, parts) ==
    SelectSeq(os, LAMBDA o : \E k \in 1..Len(parts) : parts[k].orderId = o.id)

groupIdsOf(os, parts) ==
    LET affected == affectedOrdersOf(os, parts)
    IN {affected[i].groupId : i \in 1..Len(affected)}

\* the orders array that setData leaves
reassignedOrders(os, parts, newProducerName, n) ==
    LET groupIds == groupIdsOf(os, parts)
        allOrdersInGroups == SelectSeq(os, LAMBDA o : o.groupId \in groupIds)
        nextOrders == MoveParts(allOrdersInGroups, parts, 1, targetProducerOf(newProducerName), n)
    IN SelectSeq(os, LAMBDA o : o.groupId \notin groupIds) \o finalOrdersOf(nextOrders)

\* the finalOrders of the request body
finalOrdersSent(os, parts, newProducerName, n) ==
    LET groupIds == groupIdsOf(os, parts)
        allOrdersInGroups == SelectSeq(os, LAMBDA o : o.groupId \in groupIds)
    IN finalOrdersOf(MoveParts(allOrdersInGroups, parts, 1,
                               targetProducerOf(newProducerName), n))

\* the rows the loop pushed
createdRows(os, parts, newProducerName, n) ==
    LET groupIds == groupIdsOf(os, parts)
        allOrdersInGroups == SelectSeq(os, LAMBDA o : o.groupId \in groupIds)
    IN Len(MoveParts(allOrdersInGroups, parts, 1, targetProducerOf(newProducerName), n))
          - Len(allOrdersInGroups)

----------------------------------------------------------------------------
(* createIdSlug and addOrders *)

\* the characters of the product and colour names that are entered
CharsOf(str) ==
    CASE str = "POLO" -> <<"P", "O", "L", "O">>
      [] str = "PO-LO" -> <<"P", "O", "-", "L", "O">>
      [] str = "MOR" -> <<"M", "O", "R">>
      [] str = "BEJ" -> <<"B", "E", "J">>
      [] str = "POLO-V" -> <<"P", "O", "L", "O", "-", "V">>
      [] str = "V-MOR" -> <<"V", "-", "M", "O", "R">>

\* toLocaleLowerCase('tr-TR') on these characters
LowerCase(ch) ==
    CASE ch = "P" -> "p" [] ch = "O" -> "o" [] ch = "L" -> "l" [] ch = "M" -> "m"
      [] ch = "R" -> "r" [] ch = "B" -> "b" [] ch = "E" -> "e" [] ch = "J" -> "j"
      [] ch = "V" -> "v"
      [] OTHER -> ch

\* the characters that neither /\s+/g nor /[^a-z0-9...]/g removes
SlugChars == {"a", "b", "c", "d", "e", "f", "g", "h", "i", "j", "k", "l", "m", "n", "o", "p",
              "q", "r", "s", "t", "u", "v", "w", "x", "y", "z",
              "0", "1", "2", "3", "4", "5", "6", "7", "8", "9"}

RECURSIVE Join(_)
Join(chars) == IF chars = <<>> THEN "" ELSE Head(chars) \o Join(Tail(chars))

createIdSlug(str) ==
    IF str = "" THEN ""
    ELSE LET chars == CharsOf(str)
         IN Join(SelectSeq([i \in 1..Len(chars) |-> LowerCase(chars[i])],
                           LAMBDA ch : ch \in SlugChars))

\* day and month of a date, two digits each: the days 1 and 2 are the first
\* and the second of January, the day 3 the first of January a year later
datePrefixOf(createdDate) == IF createdDate = 2 THEN "0201" ELSE "0101"

groupIdOf(datePrefix, orderData) ==
    datePrefix \o createIdSlug(orderData.productName) \o createIdSlug(orderData.color)

\* the loop over newOrdersData: created holds the orders and the reports
\* pushed so far, n counts the uuids drawn
RECURSIVE AddOrdersLoop(_, _, _, _, _, _)
AddOrdersLoop(created, newOrdersData, k, datePrefix, reports, n) ==
    IF k > Len(newOrdersData) THEN created
    ELSE LET orderData == newOrdersData[k]
             groupId == groupIdOf(datePrefix, orderData)
             order == [id |-> <<groupId, UNASSIGNED, Uuid(n + 1)>>, groupId |-> groupId,
                       createdDate |-> orderData.createdDate, completionDate |-> NoDate,
                       productName |-> orderData.productName, color |-> orderData.color,
                       producer |-> Undefined, sizes |-> orderData.sizes,
                       totalQuantity |-> orderData.totalQuantity, status |-> PendingCut]
             known == \/ \E i \in 1..Len(created.reports) : created.reports[i].groupId = groupId
                      \/ \E i \in 1..Len(reports) : reports[i].groupId = groupId
             report == [id |-> <<"report", "uuid", n + 2>>, date |-> orderData.createdDate,
                        groupId |-> groupId, productName |-> orderData.productName,
                        color |-> orderData.color, sizes |-> emptySizes, isConfirmed |-> FALSE]
         IN AddOrdersLoop([orders |-> Append(created.orders, order),
                           reports |-> IF known THEN created.reports
                                       ELSE Append(created.reports, report),
                           uuids |-> IF known THEN n + 1 ELSE n + 2],
                          newOrdersData, k + 1, datePrefix, reports,
                          IF known THEN n + 1 ELSE n + 2)

createdByAddOrders(newOrdersData, reports, n) ==
    AddOrdersLoop([orders |-> <<>>, reports |-> <<>>, uuids |-> n], newOrdersData, 1,
                  datePrefixOf(newOrdersData[1].createdDate), reports, n)

----------------------------------------------------------------------------
(* syncProductColorOrders *)

\* o.producer || 'UNASSIGNED'
producerKeyOf(order) ==
    IF order.producer \in {Undefined, Null} THEN UNASSIGNED ELSE order.producer

\* the keys of originalProducerMap, in the order of their insertion
producerKeysOf(originalOrders) ==
    LET firsts == SelectSeq([i \in 1..Len(originalOrders) |-> i],
                            LAMBDA i : \A j \in 1..(i - 1) :
                                producerKeyOf(originalOrders[j]) # producerKeyOf(originalOrders[i]))
    IN [k \in 1..Len(firsts) |-> producerKeyOf(originalOrders[firsts[k]])]

\* Math.round(total * (part / whole)) for whole numbers, whole above 0
RoundShare(total, part, whole) == (2 * total * part + whole) \div (2 * whole)

\* a row as the database returns it: an undefined producer comes back as null
Refreshed(order) == IF order.producer = Undefined THEN [order EXCEPT !.producer = Null] ELSE order

RECURSIVE SyncLoop(_, _, _, _, _, _)
SyncLoop(updatedOrders, keys, k, originalOrders, newOrdersData, n) ==
    IF k > Len(keys) THEN updatedOrders
    ELSE LET producer == keys[k]
             own == SelectSeq(originalOrders, LAMBDA o : producerKeyOf(o) = producer)
             originalProducerTotal == SumSeq([i \in 1..Len(own) |-> own[i].totalQuantity])
             originalTotalAllProducers ==
                 SumSeq([i \in 1..Len(originalOrders) |-> originalOrders[i].totalQuantity])
             newTotalSizes ==
                 [z \in SizeKeys |->
                     SumSeq([i \in 1..Len(newOrdersData) |-> newOrdersData[i].sizes[z]])]
             newProducerSizes ==
                 [z \in SizeKeys |->
                     RoundShare(newTotalSizes[z], originalProducerTotal, originalTotalAllProducers)]
             totalQuantity == SumSizes(newProducerSizes)
             first == originalOrders[1]
             row == [id |-> <<first.groupId, producer, Uuid(n + 1)>>, groupId |-> first.groupId,
                     productName |-> first.productName, color |-> first.color,
                     createdDate |-> newOrdersData[1].createdDate,
                     producer |-> IF producer = UNASSIGNED THEN Undefined ELSE producer,
                     sizes |-> newProducerSizes, totalQuantity |-> totalQuantity,
                     status |-> first.status, completionDate |-> first.completionDate]
         IN IF totalQuantity > 0
            THEN SyncLoop(Append(updatedOrders, row), keys, k + 1, originalOrders,
                          newOrdersData, n + 1)
            ELSE SyncLoop(updatedOrders, keys, k + 1, originalOrders, newOrdersData, n)

updatedOrdersOf(originalOrders, newOrdersData, n) ==
    SyncLoop(<<>>, producerKeysOf(originalOrders), 1, originalOrders, newOrdersData, n)

----------------------------------------------------------------------------
(* usageData of the defect management view *)

\* the label of the orders without a producer, written without the Turkish
\* letters
Unassigned == "Atanmamis"

\* order.producer || 'Atanmamis'
producerNameOf(order) ==
    IF order.producer \in {Undefined, Null} THEN Unassigned ELSE order.producer

HasEntry(entries, id) == \E i \in 1..Len(entries) : entries[i].id = id

FindEntry(entries, id) == entries[FirstIndex({i \in 1..Len(entries) : entries[i].id = id})]

\* Object.values(usage.usedDefectiveSizes).reduce(...)
totalDefectiveUsedOf(usage) == SumSizes(usage.usedDefectiveSizes)

\* stockEntry.defectReason, truthy, is the reason
hasAnyReason(stockEntry, reason) == TRUE

hasReason(stockEntry, reason) ==
    stockEntry.defectReason \notin {Undefined, ""} /\ stockEntry.defectReason = reason

\* the turn of the loop for one usage record, on the data of one reason
AddDefectUsage(reasonData, os, entries, usage, reason) ==
    IF ~HasOrder(os, usage.orderId) \/ ~HasEntry(entries, usage.stockEntryId) THEN reasonData
    ELSE LET order == FindOrder(os, usage.orderId)
             stockEntry == FindEntry(entries, usage.stockEntryId)
             totalDefectiveUsed == totalDefectiveUsedOf(usage)
             producerName == producerNameOf(order)
         IN IF totalDefectiveUsed > 0 /\ hasReason(stockEntry, reason)
            THEN [total |-> reasonData.total + totalDefectiveUsed,
                  byProducer |-> [reasonData.byProducer EXCEPT
                                     ![producerName] = @ + totalDefectiveUsed]]
            ELSE reasonData

RECURSIVE UsageDataLoop(_, _, _, _, _, _)
UsageDataLoop(reasonData, os, entries, usage, reason, k) ==
    IF k > Len(usage) THEN reasonData
    ELSE UsageDataLoop(AddDefectUsage(reasonData, os, entries, usage[k], reason),
                       os, entries, usage, reason, k + 1)

\* usageData.get(reason), with 0 for the producers that have no entry in
\* byProducer and for a reason that has no entry in the map
usageData(os, entries, usage, reason) ==
    UsageDataLoop([total |-> 0,
                   byProducer |-> [name \in {producerNameOf(os[i]) : i \in 1..Len(os)} |-> 0]],
                  os, entries, usage, reason, 1)

----------------------------------------------------------------------------
(* Bounds and shapes of the checked snapshots *)

MaxQty == 2
MaxOrders == 2
MaxStock == 2
MaxRenders == 2

\* an older and a newer day
Dates == {1, 2}

\* group ids as addOrders builds them: day+month, slug of the product, slug
\* of the colour; both groups are orders of the same product and colour
GroupA == "0101gomlekmavi"
GroupB == "0201gomlekmavi"
Groups == {GroupA, GroupB}
Colors == {"MAVI", "SIYAH"}

SeqsUpTo(S, lo, hi) == UNION {[1..n -> S] : n \in lo..hi}

\* a quantity q of the size "s"
OneSize(q) == [emptySizes EXCEPT !["s"] = q]
\* a quantity q of the size "s" and a quantity r of the size "m"
TwoSizes(q, r) == [emptySizes EXCEPT !["s"] = q, !["m"] = r]

StatusOf(k) == IF "status" \in DOMAIN k THEN k.status ELSE PendingCut
ProducerOf(k) == IF "producer" \in DOMAIN k THEN k.producer ELSE Undefined
CompletionOf(k) == IF "completionDate" \in DOMAIN k THEN k.completionDate ELSE NoDate
ProductOf(k) == IF "productName" \in DOMAIN k THEN k.productName ELSE "gomlek"
ColorOf(k) == IF "color" \in DOMAIN k THEN k.color ELSE "MAVI"

mkOrder(i, k) ==
    [id |-> <<"order", i>>, groupId |-> k.groupId, createdDate |-> k.createdDate,
     completionDate |-> CompletionOf(k), productName |-> ProductOf(k),
     color |-> ColorOf(k), producer |-> ProducerOf(k),
     sizes |-> k.sizes, totalQuantity |-> SumSizes(k.sizes), status |-> StatusOf(k)]

mkReport(i, k) ==
    [id |-> <<"report", i>>, date |-> 1, groupId |-> k.groupId,
     productName |-> ProductOf(k), color |-> ColorOf(k),
     sizes |-> k.sizes, isConfirmed |-> k.isConfirmed]

ArchivedOf(k) == IF "isArchived" \in DOMAIN k THEN k.isArchived ELSE FALSE
DefectReasonOf(k) == IF "defectReason" \in DOMAIN k THEN k.defectReason ELSE Undefined

mkStock(i, k) ==
    [id |-> <<"stock", i>>, date |-> k.date, productName |-> ProductOf(k), color |-> k.color,
     normalSizes |-> k.normalSizes, defectiveSizes |-> k.defectiveSizes,
     isArchived |-> ArchivedOf(k), defectReason |-> DefectReasonOf(k)]

OrderKind(g, t, sizes) == [groupId |-> g, createdDate |-> t, sizes |-> sizes]
ConfirmedKind(g, sizes) == [groupId |-> g, isConfirmed |-> TRUE, sizes |-> sizes]
UnconfirmedKind(g, sizes) == [groupId |-> g, isConfirmed |-> FALSE, sizes |-> sizes]
StockKind(c, t, n, d) ==
    [color |-> c, date |-> t, normalSizes |-> OneSize(n), defectiveSizes |-> OneSize(d)]

\* the report lists of two groups, one group after the other in either order
BothOrders(ofA, ofB) == {a \o b : a \in ofA, b \in ofB} \cup {b \o a : a \in ofA, b \in ofB}

\* a snapshot as loaded by fetchData, not rendered yet
\* the rows that initDb seeds and fetchData loads, without the contact fields
SeededDefectReasons == <<[id |-> 1, name |-> "DIKIS HATASI"], [id |-> 4, name |-> "LEKE"]>>
SeededProducers == <<[id |-> 1, name |-> "ATOLYE A"], [id |-> 2, name |-> "ATOLYE B"]>>

\* the value of db in the specifications that follow the client alone
Unobserved == "unobserved"

SnapshotOf(orderSeqs, reportSeqs, stockSeqs) ==
    /\ isLoaded = TRUE
    /\ \E ks \in orderSeqs : orders = [i \in 1..Len(ks) |-> mkOrder(i, ks[i])]
    /\ \E ks \in reportSeqs : cuttingReports = [i \in 1..Len(ks) |-> mkReport(i, ks[i])]
    /\ \E ks \in stockSeqs : allStockEntries = [i \in 1..Len(ks) |-> mkStock(i, ks[i])]
    /\ stockUsage = <<>>
    /\ prevStockUsage = <<>>
    /\ renders = 0
    /\ prevOrders = <<>>
    /\ call = [op |-> "fetchData"]
    /\ uuids = 0
    /\ defectReasons = SeededDefectReasons
    /\ producers = SeededProducers
    /\ requests = <<>>

Snapshot(orderSeqs, reportSeqs, stockSeqs) ==
    /\ SnapshotOf(orderSeqs, reportSeqs, stockSeqs)
    /\ db = Unobserved

\* a snapshot as loaded by fetchData and rendered once
\* a snapshot without stock entries, rendered once: with no entry to draw
\* from, the first render computes an empty stockUsage
RenderedWithoutStock(orderSeqs, reportSeqs) ==
    /\ isLoaded = TRUE
    /\ \E ks \in orderSeqs : orders = [i \in 1..Len(ks) |-> mkOrder(i, ks[i])]
    /\ \E ks \in reportSeqs : cuttingReports = [i \in 1..Len(ks) |-> mkReport(i, ks[i])]
    /\ allStockEntries = <<>>
    /\ stockUsage = <<>>
    /\ prevStockUsage = <<>>
    /\ renders = 1
    /\ prevOrders = <<>>
    /\ call = [op |-> "fetchData"]
    /\ uuids = 0
    /\ defectReasons = SeededDefectReasons
    /\ producers = SeededProducers
    /\ db = Unobserved
    /\ requests = <<>>

----------------------------------------------------------------------------
(* Renders *)

\* the first render after the snapshot is set: useMemo runs calculateStockUsage
Render ==
    /\ renders = 0
    /\ stockUsage' = calculateStockUsage(orders, stockEntries, cuttingReports, 1)
    /\ prevStockUsage' = stockUsage
    /\ renders' = 1
    /\ UNCHANGED <<defectReasons, producers, db, requests>>
    /\ UNCHANGED <<isLoaded, orders, allStockEntries, cuttingReports, prevOrders, call, uuids>>

\* a later run on the identical snapshot, as after a setData that rebuilds
\* allStockEntries with the same content
Rerender ==
    /\ renders > 0
    /\ renders < MaxRenders
    /\ stockUsage' = calculateStockUsage(orders, stockEntries, cuttingReports, renders + 1)
    /\ prevStockUsage' = stockUsage
    /\ renders' = renders + 1
    /\ UNCHANGED <<defectReasons, producers, db, requests>>
    /\ UNCHANGED <<isLoaded, orders, allStockEntries, cuttingReports, prevOrders, call, uuids>>

----------------------------------------------------------------------------
(* The supply side: one or two groups of one bucket, each with one order and
   any confirmed cut, over stock entries of two buckets with normal and
   defective quantities *)

SupplyOrderSeqs == {<<OrderKind(GroupA, 1, OneSize(1))>>,
                    <<OrderKind(GroupA, 1, OneSize(1)), OrderKind(GroupB, 1, OneSize(1))>>}
SupplyReportsOf(g) == {<<>>} \cup {<<ConfirmedKind(g, OneSize(q))>> : q \in 1..MaxQty}
SupplyStockKinds == {StockKind(c, 1, n, d) : c \in Colors, n \in 0..MaxQty, d \in {0, 1}}
                    \ {StockKind(c, 1, 0, 0) : c \in Colors}

Init == Snapshot(SupplyOrderSeqs, BothOrders(SupplyReportsOf(GroupA), SupplyReportsOf(GroupB)),
                 SeqsUpTo(SupplyStockKinds, 0, MaxStock))

Next == Render

Spec == Init /\ [][Next]_vars

----------------------------------------------------------------------------
(* The demand side: orders of any quantities in two groups, the first group
   with no, an unconfirmed, one confirmed or two confirmed reports around an
   unconfirmed one, the second with no, an unconfirmed or a confirmed report,
   over a few entries *)

DemandOrderKinds == {OrderKind(g, 1, OneSize(q)) : g \in Groups, q \in 1..MaxQty}
DemandReportsOfA ==
    {<<>>, <<UnconfirmedKind(GroupA, OneSize(MaxQty))>>,
     <<ConfirmedKind(GroupA, OneSize(1)), UnconfirmedKind(GroupA, OneSize(MaxQty)),
       ConfirmedKind(GroupA, OneSize(1))>>}
    \cup {<<ConfirmedKind(GroupA, OneSize(q))>> : q \in 1..MaxQty}
DemandReportsOfB ==
    {<<>>, <<UnconfirmedKind(GroupB, OneSize(MaxQty))>>, <<ConfirmedKind(GroupB, OneSize(MaxQty))>>}
DemandStockKinds == {StockKind("MAVI", 1, 1, 0), StockKind("MAVI", 1, MaxQty, 0)}

InitDemand ==
    Snapshot(SeqsUpTo(DemandOrderKinds, 1, MaxOrders),
             {a \o b : a \in DemandReportsOfA, b \in DemandReportsOfB},
             SeqsUpTo(DemandStockKinds, 0, MaxStock))

NextDemand == Render

SpecDemand == InitDemand /\ [][NextDemand]_vars

----------------------------------------------------------------------------
(* Dated stock: one group with one order and a confirmed cut of up to twice
   MaxQty, over entries of one bucket with any dates in any array order *)

FifoCuts == {<<ConfirmedKind(GroupA, OneSize(q))>> : q \in 1..(2 * MaxQty)}
FifoStockKinds == {StockKind("MAVI", t, n, d) : t \in Dates, n \in 0..MaxQty, d \in {0, 1}}
                  \ {StockKind("MAVI", t, 0, 0) : t \in Dates}

InitFifo == Snapshot({<<OrderKind(GroupA, 1, OneSize(1))>>}, FifoCuts,
                     SeqsUpTo(FifoStockKinds, 0, MaxStock))

NextFifo == Render

SpecFifo == InitFifo /\ [][NextFifo]_vars

----------------------------------------------------------------------------
(* The same snapshot rendered again: one order of two sizes, any cut of them,
   entries with a quantity of either size *)

RerunCuts == {<<ConfirmedKind(GroupA, TwoSizes(q, r))>> : q \in 0..MaxQty, r \in 0..MaxQty}
RerunStockKinds ==
    {[color |-> "MAVI", date |-> 1, normalSizes |-> TwoSizes(n, 0),
      defectiveSizes |-> TwoSizes(0, d)] : n \in 0..MaxQty, d \in 0..MaxQty}

InitRerun == Snapshot({<<OrderKind(GroupA, 1, TwoSizes(1, 1))>>}, RerunCuts,
                      SeqsUpTo(RerunStockKinds, 0, MaxStock))

NextRerun == Render \/ Rerender

SpecRerun == InitRerun /\ [][NextRerun]_vars

----------------------------------------------------------------------------
(* Competing groups: two groups of one bucket whose orders carry any of
   three creation dates in any array order, and stock that may not cover both
   cuts *)

GroupsOrderKinds == {OrderKind(g, t, OneSize(1)) : g \in Groups, t \in 1..3}
GroupsReportsOf(g) == {<<ConfirmedKind(g, OneSize(q))>> : q \in 1..MaxQty}
GroupsStockKinds == {StockKind("MAVI", 1, n, 0) : n \in 1..MaxQty}

InitGroups == Snapshot(SeqsUpTo(GroupsOrderKinds, 1, MaxOrders + 1),
                       BothOrders(GroupsReportsOf(GroupA), GroupsReportsOf(GroupB)),
                       SeqsUpTo(GroupsStockKinds, 0, MaxStock))

NextGroups == Render

SpecGroups == InitGroups /\ [][NextGroups]_vars

----------------------------------------------------------------------------
(* Stored statuses: orders of every stored status in a group with no, an
   unconfirmed, an empty confirmed, one or two confirmed reports, next to
   pending and completed orders of a second group that has no report or a
   confirmed one, over dated entries *)

StoredStates == {[status |-> PendingCut, completionDate |-> NoDate],
                 [status |-> InProgress, completionDate |-> NoDate],
                 [status |-> Completed, completionDate |-> 2],
                 [status |-> Cancelled, completionDate |-> 2]}
StoredOrderKind(g, st) ==
    [groupId |-> g, createdDate |-> 1, sizes |-> OneSize(1),
     status |-> st.status, completionDate |-> st.completionDate]
ResolverOrderKinds ==
    {StoredOrderKind(GroupA, st) : st \in StoredStates}
    \cup {StoredOrderKind(GroupB, st) :
             st \in {x \in StoredStates : x.status \in {PendingCut, Completed}}}
ResolverReportsOfA ==
    {<<>>, <<UnconfirmedKind(GroupA, OneSize(1))>>,
     <<ConfirmedKind(GroupA, OneSize(1)), ConfirmedKind(GroupA, OneSize(1))>>}
    \cup {<<ConfirmedKind(GroupA, OneSize(q))>> : q \in 0..MaxQty}
ResolverReportsOfB == {<<>>, <<ConfirmedKind(GroupB, OneSize(MaxQty))>>}
ResolverStockKinds == {StockKind("MAVI", t, 1, 0) : t \in Dates}

InitResolver ==
    Snapshot(SeqsUpTo(ResolverOrderKinds, 1, MaxOrders),
             {a \o b : a \in ResolverReportsOfA, b \in ResolverReportsOfB},
             SeqsUpTo(ResolverStockKinds, 0, MaxStock))

NextResolver == Render

SpecResolver == InitResolver /\ [][NextResolver]_vars

----------------------------------------------------------------------------
(* Reassignment: rows of two groups, unassigned as created, unassigned as
   loaded from the database or given to a workshop, and one call that moves
   one or two parts, or a part of a row that is gone, to a target *)

\* the handler; fetched is false when fetch rejects and the state is kept
reassignMultipleParts(parts, newProducerName, fetched) ==
    LET calls == Len(affectedOrdersOf(orders, parts)) > 0
        applies == calls /\ fetched
    IN /\ orders' = IF applies THEN reassignedOrders(orders, parts, newProducerName, uuids)
                     ELSE orders
       /\ uuids' = IF calls THEN uuids + createdRows(orders, parts, newProducerName, uuids)
                    ELSE uuids
       /\ prevOrders' = orders
       /\ call' = [op |-> "reassignMultipleParts", parts |-> parts,
                    newProducerName |-> newProducerName, applied |-> applies]
       /\ stockUsage' = IF applies
                         THEN calculateStockUsage(orders', stockEntries, cuttingReports, renders + 1)
                         ELSE stockUsage
       /\ prevStockUsage' = stockUsage
       /\ renders' = IF applies THEN renders + 1 ELSE renders
       /\ UNCHANGED <<defectReasons, producers, requests>>
       /\ UNCHANGED <<isLoaded, allStockEntries, cuttingReports>>

Workshop == "ATOLYE A"
ReassignRowKinds ==
    {[groupId |-> g, createdDate |-> 1, sizes |-> sizes, producer |-> p] :
        g \in Groups, sizes \in {OneSize(1), TwoSizes(MaxQty, 1)},
        p \in {Undefined, Null, Workshop}}
ReassignTargets == {UNASSIGNED, Workshop}
PartsOf(os) == {[orderId |-> os[i].id, size |-> z] : i \in 1..Len(os), z \in {"s", "m"}}
StalePart == [orderId |-> <<"order", 0>>, size |-> "s"]
ReassignPartSeqs(os) ==
    {<<StalePart>>} \cup {<<a>> : a \in PartsOf(os)}
    \cup {<<a, b>> : a \in PartsOf(os), b \in PartsOf(os) \cup {StalePart}}

InitReassign == Snapshot(SeqsUpTo(ReassignRowKinds, 1, MaxOrders), {<<>>}, {<<>>})

Reassign ==
    /\ call.op = "fetchData"
    /\ \E parts \in ReassignPartSeqs(orders), name \in ReassignTargets, fetched \in BOOLEAN :
          reassignMultipleParts(parts, name, fetched)
    /\ UNCHANGED db

NextReassign == Reassign

SpecReassign == InitReassign /\ [][NextReassign]_vars

----------------------------------------------------------------------------
(* Stock records: an order with a confirmed cut, entries that are active or
   archived, and the handlers that add, archive and restore entries *)

\* the re-render after setData replaced allStockEntries
RenderStock(entries) ==
    /\ allStockEntries' = entries
    /\ stockUsage' = calculateStockUsage(orders, activeEntries(entries), cuttingReports,
                                         renders + 1)
    /\ prevStockUsage' = stockUsage
    /\ renders' = renders + 1

KeepStock == UNCHANGED <<allStockEntries, stockUsage, prevStockUsage, renders>>

\* newEntriesData.map(entry => ({...entry, id: uuidv4()}))
newEntriesOf(newEntriesData, n) ==
    [i \in 1..Len(newEntriesData) |->
        [mkStock(i, newEntriesData[i]) EXCEPT !.id = <<"stock", "uuid", n + i>>]]

addStockEntries(newEntriesData, fetched) ==
    /\ IF fetched
       THEN RenderStock(allStockEntries \o newEntriesOf(newEntriesData, uuids))
       ELSE KeepStock
    /\ uuids' = uuids + Len(newEntriesData)
    /\ call' = [op |-> "addStockEntries", applied |-> fetched]
    /\ prevOrders' = orders
    /\ UNCHANGED <<defectReasons, producers, requests>>
    /\ UNCHANGED <<isLoaded, orders, cuttingReports>>

\* d.allStockEntries.map(e => e.id === id ? { ...e, isArchived } : e)
withArchived(entries, id, isArchived) ==
    [i \in 1..Len(entries) |->
        IF entries[i].id = id THEN [entries[i] EXCEPT !.isArchived = isArchived] ELSE entries[i]]

archiveStockEntry(id, fetched) ==
    /\ IF fetched THEN RenderStock(withArchived(allStockEntries, id, TRUE)) ELSE KeepStock
    /\ call' = [op |-> "archiveStockEntry", id |-> id, applied |-> fetched]
    /\ prevOrders' = orders
    /\ UNCHANGED <<defectReasons, producers, requests>>
    /\ UNCHANGED <<isLoaded, orders, cuttingReports, uuids>>

restoreStockEntry(id, fetched) ==
    /\ IF fetched THEN RenderStock(withArchived(allStockEntries, id, FALSE)) ELSE KeepStock
    /\ call' = [op |-> "restoreStockEntry", id |-> id, applied |-> fetched]
    /\ prevOrders' = orders
    /\ UNCHANGED <<defectReasons, producers, requests>>
    /\ UNCHANGED <<isLoaded, orders, cuttingReports, uuids>>

\* the answer of PUT /stock-entries/:id is { id, ...data }
savedEntryOf(id, updatedData) == [mkStock(0, updatedData) EXCEPT !.id = id]

\* d.allStockEntries.map(e => e.id === id ? savedEntry : e)
withSaved(entries, id, savedEntry) ==
    [i \in 1..Len(entries) |-> IF entries[i].id = id THEN savedEntry ELSE entries[i]]

updateStockEntry(id, updatedData, fetched) ==
    /\ IF fetched
       THEN RenderStock(withSaved(allStockEntries, id, savedEntryOf(id, updatedData)))
       ELSE KeepStock
    /\ call' = [op |-> "updateStockEntry", id |-> id, applied |-> fetched]
    /\ prevOrders' = orders
    /\ UNCHANGED <<defectReasons, producers, requests>>
    /\ UNCHANGED <<isLoaded, orders, cuttingReports, uuids>>

\* e.defectReason === reasonToDelete.name ? {...e, defectReason: undefined} : e
withoutReason(entries, name) ==
    [i \in 1..Len(entries) |->
        IF entries[i].defectReason = name
        THEN [entries[i] EXCEPT !.defectReason = Undefined]
        ELSE entries[i]]

\* fetched is FALSE when fetch rejects; the status of the answer is not read
deleteDefectReason(id, fetched) ==
    LET found == {i \in 1..Len(defectReasons) : defectReasons[i].id = id}
        applies == found # {} /\ fetched
        reasonToDelete == defectReasons[FirstIndex(found)]
    IN /\ defectReasons' = IF applies
                            THEN SelectSeq(defectReasons, LAMBDA r : r.id # id)
                            ELSE defectReasons
       /\ IF applies
          THEN RenderStock(withoutReason(allStockEntries, reasonToDelete.name))
          ELSE KeepStock
       /\ call' = [op |-> "deleteDefectReason", id |-> id, applied |-> applies]
       /\ prevOrders' = orders
       /\ UNCHANGED <<isLoaded, orders, cuttingReports, uuids, producers, requests>>

ArchiveCuts == {<<ConfirmedKind(GroupA, OneSize(q))>> : q \in 1..MaxQty}
ArchiveNewKinds == {StockKind("MAVI", 1, n, 0) : n \in 1..MaxQty}

InitArchive == RenderedWithoutStock({<<OrderKind(GroupA, 1, OneSize(1))>>}, ArchiveCuts)

AddStock ==
    /\ renders <= MaxRenders + 1
    /\ \E ks \in SeqsUpTo(ArchiveNewKinds, 1, MaxStock - Len(allStockEntries)),
          fetched \in BOOLEAN :
          /\ uuids + Len(ks) <= MaxStock
          /\ addStockEntries(ks, fetched)
    /\ UNCHANGED db

\* the stock records list shows the active entries
Archive ==
    /\ renders <= MaxRenders + 1
    /\ \E i \in 1..Len(stockEntries), fetched \in BOOLEAN :
          archiveStockEntry(stockEntries[i].id, fetched)
    /\ UNCHANGED db

\* the undo of the toast of an archived entry
Restore ==
    /\ renders <= MaxRenders + 1
    /\ \E i \in 1..Len(allStockEntries), fetched \in BOOLEAN :
          /\ allStockEntries[i].isArchived
          /\ restoreStockEntry(allStockEntries[i].id, fetched)
    /\ UNCHANGED db

NextArchive == AddStock \/ Archive \/ Restore

SpecArchive == InitArchive /\ [][NextArchive]_vars

----------------------------------------------------------------------------
(* Defects: orders of one group, unassigned or given to a workshop, a cut
   that the normal stock may not cover, and entries of normal stock or of
   defective stock with or without a defect reason *)

DefectReasons == {"DIKIS HATASI", "LEKE"}
DefectOrderKinds ==
    {[groupId |-> GroupA, createdDate |-> 1, sizes |-> OneSize(1), producer |-> p] :
        p \in {Undefined, Null, Workshop}}
DefectCuts == {<<ConfirmedKind(GroupA, OneSize(q))>> : q \in {1, MaxQty, 2 * MaxQty}}
DefectStockKinds ==
    {StockKind("MAVI", 1, 1, 0), StockKind("MAVI", 1, 0, 1)}
    \cup {[color |-> "MAVI", date |-> 1, normalSizes |-> OneSize(0),
            defectiveSizes |-> OneSize(d), defectReason |-> r] :
              d \in 1..MaxQty, r \in DefectReasons}

InitDefects == Snapshot(SeqsUpTo(DefectOrderKinds, 1, MaxOrders), DefectCuts,
                        SeqsUpTo(DefectStockKinds, 0, MaxStock))

NextDefects == Render

SpecDefects == InitDefects /\ [][NextDefects]_vars

----------------------------------------------------------------------------
(* Overflow: one group whose confirmed cut can exceed what its orders ask *)

OverflowOrderKinds == {OrderKind(GroupA, 1, OneSize(q)) : q \in 1..MaxQty}
OverflowCuts ==
    {<<ConfirmedKind(GroupA, OneSize(q))>> : q \in 1..MaxQty}
    \cup {<<ConfirmedKind(GroupA, OneSize(MaxQty)), ConfirmedKind(GroupA, OneSize(q))>> :
              q \in 1..MaxQty}
OverflowStockKinds ==
    {StockKind("MAVI", 1, n, d) : n \in 0..MaxQty, d \in 0..1} \ {StockKind("MAVI", 1, 0, 0)}

InitOverflow == Snapshot(SeqsUpTo(OverflowOrderKinds, 1, MaxOrders), OverflowCuts,
                         SeqsUpTo(OverflowStockKinds, 1, MaxStock))

NextOverflow == Render

SpecOverflow == InitOverflow /\ [][NextOverflow]_vars

----------------------------------------------------------------------------
(* Buckets: two groups that draw from one bucket, with and without orders *)

BucketOrderKinds == {OrderKind(g, t, OneSize(MaxQty)) : g \in Groups, t \in Dates}
BucketReportsOf(g) == {<<ConfirmedKind(g, OneSize(q))>> : q \in 1..MaxQty}
BucketStockKinds ==
    {StockKind("MAVI", 1, MaxQty, 0), StockKind("MAVI", 1, 1, 1), StockKind("MAVI", 1, 0, 1)}

InitBuckets == Snapshot(SeqsUpTo(BucketOrderKinds, 1, MaxOrders),
                        BothOrders(BucketReportsOf(GroupA), BucketReportsOf(GroupB)),
                        SeqsUpTo(BucketStockKinds, 0, MaxStock))

NextBuckets == Render

SpecBuckets == InitBuckets /\ [][NextBuckets]_vars

----------------------------------------------------------------------------
(* Bucket keys: an order with its confirmed cutting report, and stock entries,
   of products and colours whose names hold a hyphen *)

NamedPairs == {<<"POLO", "MOR">>, <<"POLO-V", "MOR">>, <<"POLO", "V-MOR">>}
NamedGroup(pc) == groupIdOf(datePrefixOf(1), [productName |-> pc[1], color |-> pc[2]])
NamedOrderKinds ==
    {[groupId |-> NamedGroup(pc), createdDate |-> 1, sizes |-> OneSize(MaxQty),
      productName |-> pc[1], color |-> pc[2]] : pc \in NamedPairs}
NamedReportOf(k, q) ==
    [groupId |-> k.groupId, isConfirmed |-> TRUE, sizes |-> OneSize(q),
     productName |-> k.productName, color |-> k.color]
NamedStockKinds ==
    {[color |-> pc[2], productName |-> pc[1], date |-> 1, normalSizes |-> OneSize(MaxQty),
      defectiveSizes |-> OneSize(0)] : pc \in NamedPairs}

\* the report of a group carries the product and the colour of its order
InitKeys ==
    \E k \in NamedOrderKinds, q \in 1..MaxQty :
        Snapshot({<<k>>}, {<<NamedReportOf(k, q)>>}, SeqsUpTo(NamedStockKinds, 0, MaxStock))

NextKeys == Render

SpecKeys == InitKeys /\ [][NextKeys]_vars

----------------------------------------------------------------------------
(* Stock entries and defect reasons: addStockEntries, updateStockEntry and
   deleteDefectReason, each entry with a defective quantity given a reason *)

ReasonedKinds ==
    {StockKind("MAVI", 1, n, 0) : n \in 1..MaxQty}
    \cup {[color |-> "MAVI", date |-> 1, normalSizes |-> OneSize(0),
            defectiveSizes |-> OneSize(d), defectReason |-> r] :
              d \in 1..MaxQty, r \in DefectReasons}

InitReasons == RenderedWithoutStock({<<OrderKind(GroupA, 1, OneSize(1))>>}, ArchiveCuts)

AddReasoned ==
    /\ renders <= MaxRenders + 1
    /\ \E k \in ReasonedKinds, fetched \in BOOLEAN :
          /\ uuids < MaxStock
          /\ addStockEntries(<<k>>, fetched)
    /\ UNCHANGED db

UpdateReasoned ==
    /\ renders <= MaxRenders + 1
    /\ \E i \in 1..Len(allStockEntries), k \in ReasonedKinds, fetched \in BOOLEAN :
          updateStockEntry(allStockEntries[i].id, k, fetched)
    /\ UNCHANGED db

DeleteReason ==
    /\ renders <= MaxRenders + 1
    /\ \E id \in {1, 4}, fetched \in BOOLEAN : deleteDefectReason(id, fetched)
    /\ UNCHANGED db

NextReasons == AddReasoned \/ UpdateReasoned \/ DeleteReason

SpecReasons == InitReasons /\ [][NextReasons]_vars

----------------------------------------------------------------------------
(* Order entry: addOrders, syncProductColorOrders and reassignMultipleParts
   on a store that starts empty *)

addOrders(newOrdersData, fetched) ==
    LET created == createdByAddOrders(newOrdersData, cuttingReports, uuids)
    IN /\ orders' = IF fetched THEN orders \o created.orders ELSE orders
       /\ cuttingReports' = IF fetched THEN cuttingReports \o created.reports
                             ELSE cuttingReports
       /\ uuids' = created.uuids
       /\ prevOrders' = orders
       /\ call' = [op |-> "addOrders", newOrdersData |-> newOrdersData, applied |-> fetched]
       /\ stockUsage' = IF fetched
                         THEN calculateStockUsage(orders', stockEntries, cuttingReports',
                                                  renders + 1)
                         ELSE stockUsage
       /\ prevStockUsage' = stockUsage
       /\ renders' = IF fetched THEN renders + 1 ELSE renders
       /\ UNCHANGED <<defectReasons, producers, requests>>
       /\ UNCHANGED <<isLoaded, allStockEntries>>

syncProductColorOrders(originalOrders, newOrdersData, fetched) ==
    LET calls == Len(originalOrders) > 0 /\ Len(newOrdersData) > 0
        applies == calls /\ fetched
        updatedOrders == updatedOrdersOf(originalOrders, newOrdersData, uuids)
        groupId == originalOrders[1].groupId
        refreshedOrders == [i \in 1..Len(updatedOrders) |-> Refreshed(updatedOrders[i])]
    IN /\ orders' = IF applies
                     THEN SelectSeq(orders, LAMBDA o : o.groupId # groupId) \o refreshedOrders
                     ELSE orders
       /\ uuids' = IF calls THEN uuids + Len(updatedOrders) ELSE uuids
       /\ prevOrders' = orders
       /\ call' = [op |-> "syncProductColorOrders", originalOrders |-> originalOrders,
                    newOrdersData |-> newOrdersData, applied |-> applies]
       /\ stockUsage' = IF applies
                         THEN calculateStockUsage(orders', stockEntries, cuttingReports,
                                                  renders + 1)
                         ELSE stockUsage
       /\ prevStockUsage' = stockUsage
       /\ renders' = IF applies THEN renders + 1 ELSE renders
       /\ UNCHANGED <<defectReasons, producers, requests>>
       /\ UNCHANGED <<isLoaded, allStockEntries, cuttingReports>>

\* what the order form submits: one model, one date, a row per colour
ProductNames == {"POLO", "PO-LO"}
ColorNames == {"MOR", "BEJ"}
FormRow(productName, color, createdDate, q) ==
    [productName |-> productName, color |-> color, createdDate |-> createdDate,
     sizes |-> OneSize(q), totalQuantity |-> SumSizes(OneSize(q))]
FormRows(productName, createdDate) ==
    LET rows == {FormRow(productName, c, createdDate, MaxQty) : c \in ColorNames}
    IN {<<r>> : r \in rows} \cup {<<r1, r2>> : r1 \in rows, r2 \in rows}

InitOrders == RenderedWithoutStock({<<>>}, {<<>>})

AddOrders ==
    /\ renders <= MaxRenders
    /\ uuids <= 2 * MaxOrders
    /\ \E productName \in ProductNames, createdDate \in {1, 3}, fetched \in BOOLEAN :
          \E newOrdersData \in FormRows(productName, createdDate) :
             /\ Len(orders) + Len(newOrdersData) <= MaxOrders
             /\ addOrders(newOrdersData, fetched)
    /\ UNCHANGED db

SyncOrders ==
    /\ renders <= MaxRenders
    /\ uuids <= 2 * MaxOrders
    /\ \E i \in 1..Len(orders), q \in 1..MaxQty, fetched \in BOOLEAN :
          LET first == orders[i]
          IN syncProductColorOrders(
                 SelectSeq(orders, LAMBDA o : o.groupId = first.groupId),
                 <<FormRow(first.productName, first.color, first.createdDate, q)>>,
                 fetched)
    /\ UNCHANGED db

ReassignOrders ==
    /\ renders <= MaxRenders
    /\ uuids <= 2 * MaxOrders
    /\ \E part \in PartsOf(orders), name \in ReassignTargets, fetched \in BOOLEAN :
          reassignMultipleParts(<<part>>, name, fetched)
    /\ UNCHANGED db

NextOrders == AddOrders \/ SyncOrders \/ ReassignOrders

SpecOrders == InitOrders /\ [][NextOrders]_vars

----------------------------------------------------------------------------
(* Editing a group: the rows of one group, unassigned or given to one of two
   workshops, and one syncProductColorOrders call with a new total *)

SyncRowKinds ==
    {[groupId |-> GroupA, createdDate |-> 1, sizes |-> OneSize(q), producer |-> p] :
        q \in 1..MaxQty, p \in {Null, Workshop, "ATOLYE B"}}

InitSync == Snapshot(SeqsUpTo(SyncRowKinds, 1, MaxOrders), {<<>>}, {<<>>})

\* the edit form submits one row of the group's product and colour
SyncGroup ==
    /\ call.op = "fetchData"
    /\ \E q \in 1..(MaxQty + 1), fetched \in BOOLEAN :
          syncProductColorOrders(
              orders,
              <<[productName |-> orders[1].productName, color |-> orders[1].color,
                 createdDate |-> orders[1].createdDate, sizes |-> OneSize(q),
                 totalQuantity |-> q]>>,
              fetched)
    /\ UNCHANGED db

NextSync == SyncGroup

SpecSync == InitSync /\ [][NextSync]_vars

----------------------------------------------------------------------------
(* The server's tables and routes *)

\* journal holds the rows as they were at BEGIN while a transaction is open
NoJournal == <<>>

\* the tables that hold what fetchData loaded: the producer column of an
\* unassigned order is NULL, AUTOINCREMENT continues from the largest id
ServerOf(os, ps) ==
    [orders |-> [i \in 1..Len(os) |-> Refreshed(os[i])],
     producers |-> ps,
     lastId |-> MaxSeq([i \in 1..Len(ps) |-> ps[i].id]),
     journal |-> NoJournal]

\* POST /producers: name is UNIQUE
postProducers(d, data) ==
    IF \E i \in 1..Len(d.producers) : d.producers[i].name = data.name
    THEN [status |-> 409, db |-> d]
    ELSE LET newRecord == [id |-> d.lastId + 1, name |-> data.name]
         IN [status |-> 201, newRecord |-> newRecord,
             db |-> [d EXCEPT !.producers = Append(@, newRecord), !.lastId = @ + 1]]

\* PUT /producers/:id: the UPDATE fails on a name another row has
putProducers(d, id, data) ==
    IF \E i \in 1..Len(d.producers) : d.producers[i].name = data.name /\ d.producers[i].id # id
    THEN [status |-> 500, db |-> d]
    ELSE [status |-> 200,
          db |-> [d EXCEPT !.producers =
                     [i \in 1..Len(@) |-> IF @[i].id = id THEN [@[i] EXCEPT !.name = data.name]
                                           ELSE @[i]]]]

\* DELETE /producers/:id: the orders of the producer lose it, then the row goes
deleteProducers(d, id) ==
    LET found == {i \in 1..Len(d.producers) : d.producers[i].id = id}
        name == d.producers[FirstIndex(found)].name
        released == [i \in 1..Len(d.orders) |->
                        IF found # {} /\ d.orders[i].producer = name
                        THEN [d.orders[i] EXCEPT !.producer = Null]
                        ELSE d.orders[i]]
    IN [status |-> 200,
        db |-> [d EXCEPT !.orders = released,
                         !.producers = SelectSeq(@, LAMBDA r : r.id # id)]]

\* POST /orders/reassign handled alone: the rows of the groups are replaced
postOrdersReassign(d, finalOrders, groupIds) ==
    [status |-> 200,
     db |-> [d EXCEPT !.orders = SelectSeq(@, LAMBDA o : o.groupId \notin groupIds)
                                   \o [i \in 1..Len(finalOrders) |-> Refreshed(finalOrders[i])]]]

----------------------------------------------------------------------------
(* Producers: addProducer, updateProducer, deleteProducer *)

\* fetched is FALSE when fetch rejects and the request does not reach the server
addProducer(producerData, fetched) ==
    LET answer == postProducers(db, producerData)
    IN /\ producers' = IF fetched /\ answer.status = 201
                        THEN Append(producers, answer.newRecord)
                        ELSE producers
       /\ db' = IF fetched THEN answer.db ELSE db
       /\ call' = [op |-> "addProducer", producerData |-> producerData,
                    returned |-> fetched /\ answer.status = 201]
       /\ prevOrders' = orders
       /\ UNCHANGED <<isLoaded, orders, allStockEntries, cuttingReports, stockUsage,
                      prevStockUsage, renders, uuids, defectReasons, requests>>

\* the status of the answer is not read
updateProducer(id, producerData, fetched) ==
    LET answer == putProducers(db, id, producerData)
    IN /\ producers' = IF fetched
                        THEN [i \in 1..Len(producers) |->
                                 IF producers[i].id = id
                                 THEN [producers[i] EXCEPT !.name = producerData.name]
                                 ELSE producers[i]]
                        ELSE producers
       /\ db' = IF fetched THEN answer.db ELSE db
       /\ call' = [op |-> "updateProducer", id |-> id, producerData |-> producerData,
                    status |-> IF fetched THEN answer.status ELSE 0]
       /\ prevOrders' = orders
       /\ UNCHANGED <<isLoaded, orders, allStockEntries, cuttingReports, stockUsage,
                      prevStockUsage, renders, uuids, defectReasons, requests>>

deleteProducer(id, fetched) ==
    LET found == {i \in 1..Len(producers) : producers[i].id = id}
        applies == found # {} /\ fetched
        producerToDelete == producers[FirstIndex(found)]
    IN /\ producers' = IF applies THEN SelectSeq(producers, LAMBDA r : r.id # id)
                        ELSE producers
       /\ orders' = IF applies
                     THEN [i \in 1..Len(orders) |->
                              IF orders[i].producer = producerToDelete.name
                              THEN [orders[i] EXCEPT !.producer = Undefined]
                              ELSE orders[i]]
                     ELSE orders
       /\ db' = IF applies THEN deleteProducers(db, id).db ELSE db
       /\ call' = [op |-> "deleteProducer", id |-> id, applied |-> applies]
       /\ prevOrders' = orders
       /\ stockUsage' = IF applies
                         THEN calculateStockUsage(orders', stockEntries, cuttingReports,
                                                  renders + 1)
                         ELSE stockUsage
       /\ prevStockUsage' = stockUsage
       /\ renders' = IF applies THEN renders + 1 ELSE renders
       /\ UNCHANGED <<isLoaded, allStockEntries, cuttingReports, uuids, defectReasons,
                      requests>>

MaxProducers == 3
WorkshopNames == {"ATOLYE A", "ATOLYE B", "ATOLYE C"}
ProducerRowKinds ==
    {[groupId |-> GroupA, createdDate |-> 1, sizes |-> OneSize(1), producer |-> p] :
        p \in {Null, Workshop}}

InitProducers ==
    /\ SnapshotOf({<<k>> : k \in ProducerRowKinds}, {<<>>}, {<<>>})
    /\ db = ServerOf(orders, producers)

AddProducer ==
    /\ db.lastId < MaxProducers
    /\ \E name \in WorkshopNames, fetched \in BOOLEAN : addProducer([name |-> name], fetched)

UpdateProducer ==
    \E i \in 1..Len(producers), name \in WorkshopNames, fetched \in BOOLEAN :
        updateProducer(producers[i].id, [name |-> name], fetched)

DeleteProducer ==
    /\ renders < MaxRenders
    /\ \E i \in 1..Len(producers), fetched \in BOOLEAN : deleteProducer(producers[i].id, fetched)

\* the order detail view offers the names of the producers of the snapshot
ReassignToProducer ==
    /\ renders < MaxRenders
    /\ uuids < MaxOrders
    /\ \E part \in PartsOf(orders), i \in 1..Len(producers), fetched \in BOOLEAN :
          LET parts == <<part>>
              name == producers[i].name
          IN /\ reassignMultipleParts(parts, name, fetched)
             /\ db' = IF fetched
                       THEN postOrdersReassign(db, finalOrdersSent(orders, parts, name, uuids),
                                               groupIdsOf(orders, parts)).db
                       ELSE db

NextProducers == AddProducer \/ UpdateProducer \/ DeleteProducer \/ ReassignToProducer

SpecProducers == InitProducers /\ [][NextProducers]_vars

----------------------------------------------------------------------------
(* Requests handled concurrently on the one connection.  Every await of a
   route is a point where the handler of another request may run.  SQLite
   refuses BEGIN while a transaction is open on the connection, and COMMIT
   and ROLLBACK while none is; a statement outside a transaction is applied
   at once. *)

MaxRequests == 2

ServerRowKinds ==
    {[groupId |-> GroupA, createdDate |-> 1, sizes |-> TwoSizes(1, 1), producer |-> p] :
        p \in {Null, Workshop}}

RECURSIVE SeqOfSet(_)
SeqOfSet(S) ==
    IF S = {} THEN <<>>
    ELSE LET x == CHOOSE y \in S : TRUE IN <<x>> \o SeqOfSet(S \ {x})

\* the bodies that clients holding the snapshot os send; n numbers their new ids
reassignBodies(os, n) ==
    {[route |-> "/orders/reassign",
      groupIds |-> SeqOfSet(groupIdsOf(os, <<part>>)),
      rows |-> finalOrdersSent(os, <<part>>, "ATOLYE B", n)] : part \in PartsOf(os)}

syncBodies(os, n) ==
    {[route |-> "/orders/sync",
      groupIds |-> <<os[1].groupId>>,
      rows |-> updatedOrdersOf(os,
                   <<[productName |-> os[1].productName, color |-> os[1].color,
                      createdDate |-> os[1].createdDate, sizes |-> TwoSizes(2, 1),
                      totalQuantity |-> 3]>>, n)]}

\* a request at its BEGIN, none of its statements run
received(body) ==
    [route |-> body.route, groupIds |-> body.groupIds, rows |-> body.rows,
     pc |-> "begin", at |-> 1, applied |-> {}, pending |-> {}, status |-> 0]

statementsOf(req) == Len(req.groupIds) + Len(req.rows)

InitServer ==
    /\ SnapshotOf({<<k>> : k \in ServerRowKinds}, {<<>>}, {<<>>})
    /\ db = ServerOf(orders, producers)

ClientIdle ==
    UNCHANGED <<isLoaded, orders, allStockEntries, cuttingReports, stockUsage,
                prevStockUsage, renders, prevOrders, call, uuids, defectReasons, producers>>

Receive ==
    /\ Len(requests) < MaxRequests
    /\ \E body \in reassignBodies(orders, Len(requests)) \cup syncBodies(orders, Len(requests)) :
          requests' = Append(requests, received(body))
    /\ UNCHANGED db
    /\ ClientIdle

\* await db.exec('BEGIN TRANSACTION')
Begin ==
    \E r \in 1..Len(requests) :
       /\ requests[r].pc = "begin"
       /\ IF db.journal = NoJournal
          THEN /\ db' = [db EXCEPT !.journal = <<db.orders>>]
               /\ requests' = [requests EXCEPT ![r].pc = "run"]
          ELSE /\ db' = db
               /\ requests' = [requests EXCEPT ![r].pc = "catch"]
       /\ ClientIdle

\* await db.run(...): the DELETE of a group, then the INSERT of a row; id is
\* the PRIMARY KEY of orders
Run ==
    \E r \in 1..Len(requests) :
       LET req == requests[r]
           k == req.at
           deletes == k <= Len(req.groupIds)
           row == Refreshed(req.rows[k - Len(req.groupIds)])
           refused == ~deletes /\ \E i \in 1..Len(db.orders) : db.orders[i].id = row.id
           ran == [req EXCEPT !.applied = @ \cup {k},
                              !.pending = IF db.journal = NoJournal THEN @ ELSE @ \cup {k},
                              !.at = k + 1,
                              !.pc = IF k = statementsOf(req) THEN "commit" ELSE "run"]
       IN /\ req.pc = "run"
          /\ db' = IF refused THEN db
                    ELSE IF deletes
                    THEN [db EXCEPT !.orders = SelectSeq(@, LAMBDA o : o.groupId # req.groupIds[k])]
                    ELSE [db EXCEPT !.orders = Append(@, row)]
          /\ requests' = [requests EXCEPT ![r] = IF refused THEN [req EXCEPT !.pc = "catch"]
                                                 ELSE ran]
          /\ ClientIdle

\* what every request has run inside the transaction becomes durable
committed(reqs) == [i \in 1..Len(reqs) |-> [reqs[i] EXCEPT !.pending = {}]]

\* what every request has run inside the transaction is undone
rolledBack(reqs) ==
    [i \in 1..Len(reqs) |-> [reqs[i] EXCEPT !.applied = @ \ reqs[i].pending, !.pending = {}]]

\* await db.exec('COMMIT'), then the answer
Commit ==
    \E r \in 1..Len(requests) :
       /\ requests[r].pc = "commit"
       /\ IF db.journal # NoJournal
          THEN /\ db' = [db EXCEPT !.journal = NoJournal]
               /\ requests' = [committed(requests) EXCEPT ![r].pc = "done", ![r].status = 200]
          ELSE /\ db' = db
               /\ requests' = [requests EXCEPT ![r].pc = "catch"]
       /\ ClientIdle

\* catch: await db.exec('ROLLBACK'), then status 500; a ROLLBACK that throws
\* leaves the handler without an answer
Catch ==
    \E r \in 1..Len(requests) :
       /\ requests[r].pc = "catch"
       /\ IF db.journal # NoJournal
          THEN /\ db' = [db EXCEPT !.orders = db.journal[1], !.journal = NoJournal]
               /\ requests' = [rolledBack(requests) EXCEPT ![r].pc = "done", ![r].status = 500]
          ELSE /\ db' = db
               /\ requests' = [requests EXCEPT ![r].pc = "crashed"]
       /\ ClientIdle

NextServer == Receive \/ Begin \/ Run \/ Commit \/ Catch

SpecServer == InitServer /\ [][NextServer]_vars

----------------------------------------------------------------------------
(* Answers of the server: a request is committed and answered with success,
   rolled back and answered with status 500, or never reaches the server *)

Answers == {"ok", "failed", "unreachable"}

\* POST /orders handled alone
postOrders(d, newOrders) ==
    [status |-> 201,
     db |-> [d EXCEPT !.orders = @ \o [i \in 1..Len(newOrders) |-> Refreshed(newOrders[i])]]]

InitAnswers ==
    /\ SnapshotOf({<<k>> : k \in ProducerRowKinds}, {<<>>}, {<<>>})
    /\ db = ServerOf(orders, producers)

\* reassignMultipleParts awaits fetch and does not read the answer
ReassignAnswered ==
    /\ renders < MaxRenders
    /\ uuids < MaxOrders
    /\ \E part \in PartsOf(orders), name \in ReassignTargets, answer \in Answers :
          LET parts == <<part>>
          IN /\ reassignMultipleParts(parts, name, answer # "unreachable")
             /\ db' = IF answer = "ok"
                       THEN postOrdersReassign(db, finalOrdersSent(orders, parts, name, uuids),
                                               groupIdsOf(orders, parts)).db
                       ELSE db

\* addOrders throws unless response.ok
AddOrdersAnswered ==
    /\ renders < MaxRenders
    /\ uuids < MaxOrders
    /\ \E color \in ColorNames, answer \in Answers :
          LET newOrdersData == <<FormRow("POLO", color, 1, 1)>>
          IN /\ addOrders(newOrdersData, answer = "ok")
             /\ db' = IF answer = "ok"
                       THEN postOrders(db, createdByAddOrders(newOrdersData, cuttingReports,
                                                              uuids).orders).db
                       ELSE db

NextAnswers == ReassignAnswered \/ AddOrdersAnswered

SpecAnswers == InitAnswers /\ [][NextAnswers]_vars

----------------------------------------------------------------------------
(* Quantities read off a rendered state *)

Rendered == renders > 0

SumUsage(P(_), V(_)) ==
    LET us == SelectSeq(stockUsage, P) IN SumSeq([i \in 1..Len(us) |-> V(us[i])])

SumEntries(P(_), V(_)) ==
    LET es == SelectSeq(stockEntries, P) IN SumSeq([i \in 1..Len(es) |-> V(es[i])])

Products == {allStockEntries[i].productName : i \in 1..Len(allStockEntries)}
EntryColors == {allStockEntries[i].color : i \in 1..Len(allStockEntries)}
GroupIds == {orders[i].groupId : i \in 1..Len(orders)}
            \cup {cuttingReports[i].groupId : i \in 1..Len(cuttingReports)}

\* the usage record's stock entry has the product and the colour
UsesKey(u, p, c) ==
    \E i \in 1..Len(allStockEntries) :
        /\ allStockEntries[i].id = u.stockEntryId
        /\ allStockEntries[i].productName = p
        /\ allStockEntries[i].color = c

UsedNormalOfKey(p, c, z) == SumUsage(LAMBDA u : UsesKey(u, p, c), LAMBDA u : u.usedNormalSizes[z])
UsedDefectiveOfKey(p, c, z) ==
    SumUsage(LAMBDA u : UsesKey(u, p, c), LAMBDA u : u.usedDefectiveSizes[z])
StockNormalOfKey(p, c, z) ==
    SumEntries(LAMBDA e : e.productName = p /\ e.color = c, LAMBDA e : e.normalSizes[z])
StockDefectiveOfKey(p, c, z) ==
    SumEntries(LAMBDA e : e.productName = p /\ e.color = c, LAMBDA e : e.defectiveSizes[z])

UsedNormalOfEntry(e, z) ==
    SumUsage(LAMBDA u : u.stockEntryId = e.id, LAMBDA u : u.usedNormalSizes[z])
UsedDefectiveOfEntry(e, z) ==
    SumUsage(LAMBDA u : u.stockEntryId = e.id, LAMBDA u : u.usedDefectiveSizes[z])

InGroup(u, g) == HasOrder(orders, u.orderId) /\ FindOrder(orders, u.orderId).groupId = g

GroupUsed(g, z) == SumUsage(LAMBDA u : InGroup(u, g), LAMBDA u : u.usedSizes[z])

ConfirmedCut(g, z) ==
    LET rs == SelectSeq(cuttingReports, LAMBDA r : r.isConfirmed /\ r.groupId = g)
    IN SumSeq([i \in 1..Len(rs) |-> rs[i].sizes[z]])

GroupOrdered(g, z) ==
    LET os == ordersByGroup(orders, g) IN SumSeq([i \in 1..Len(os) |-> os[i].sizes[z]])

OrderUsed(o, z) == SumUsage(LAMBDA u : u.orderId = o.id, LAMBDA u : u.usedSizes[z])

\* the confirmed cut, over the groups of a product and colour that have orders
CutOfKey(p, c, z) ==
    LET gs == {g \in GroupIds : /\ ordersByGroup(orders, g) # <<>>
                                /\ \E i \in 1..Len(cuttingReports) :
                                      /\ cuttingReports[i].groupId = g
                                      /\ cuttingReports[i].productName = p
                                      /\ cuttingReports[i].color = c}
        rs == SelectSeq(cuttingReports, LAMBDA r : r.isConfirmed /\ r.groupId \in gs)
    IN SumSeq([i \in 1..Len(rs) |-> rs[i].sizes[z]])

----------------------------------------------------------------------------
(* The allocation engine *)

\* C1 - Conservation: after calculateStockUsage, for every product and
\* colour and every size, the normal quantity used from the stock entries of
\* that product and colour is at most the normal quantity of the active
\* entries of that product and colour; the same for the defective quantity.
Conservation ==
    Rendered =>
        \A p \in Products, c \in EntryColors, z \in SizeKeys :
            /\ UsedNormalOfKey(p, c, z) <= StockNormalOfKey(p, c, z)
            /\ UsedDefectiveOfKey(p, c, z) <= StockDefectiveOfKey(p, c, z)

\* the cut asks for more than two entries of a bucket hold: both their normal
\* and their defective quantity is used up
ConservationWitness ==
    /\ Rendered
    /\ \E p \in Products, c \in EntryColors :
          /\ Cardinality({i \in 1..Len(stockEntries) :
                             stockEntries[i].productName = p /\ stockEntries[i].color = c}) = 2
          /\ StockNormalOfKey(p, c, "s") > 0
          /\ StockDefectiveOfKey(p, c, "s") > 0
          /\ UsedNormalOfKey(p, c, "s") = StockNormalOfKey(p, c, "s")
          /\ UsedDefectiveOfKey(p, c, "s") = StockDefectiveOfKey(p, c, "s")
          /\ CutOfKey(p, c, "s") > StockNormalOfKey(p, c, "s") + StockDefectiveOfKey(p, c, "s")

\* C2 - Cut cap: after calculateStockUsage, for every order group and size,
\* the usedSizes of the usage records of the group's orders sum to at most the
\* sizes of the group's confirmed cutting reports.
CutCap ==
    Rendered => \A g \in GroupIds, z \in SizeKeys : GroupUsed(g, z) <= ConfirmedCut(g, z)

\* a group with a confirmed and an unconfirmed report is served its whole
\* confirmed cut and stock of its bucket is left over
CutCapWitness ==
    /\ Rendered
    /\ \E g \in GroupIds :
          /\ ConfirmedCut(g, "s") > 0
          /\ GroupUsed(g, "s") = ConfirmedCut(g, "s")
          /\ \E i \in 1..Len(cuttingReports) :
                cuttingReports[i].groupId = g /\ ~cuttingReports[i].isConfirmed
          /\ \E i \in 1..Len(cuttingReports) :
                /\ cuttingReports[i].groupId = g
                /\ UsedNormalOfKey(cuttingReports[i].productName, cuttingReports[i].color, "s")
                      < StockNormalOfKey(cuttingReports[i].productName, cuttingReports[i].color, "s")

\* C3 - Demand cap: for every order and size, the usedSizes of the usage
\* records of the order sum to at most the order's quantity of that size,
\* whenever the group's confirmed cut of the size is at most the quantity the
\* group's orders ask of it.
DemandCap ==
    Rendered =>
        \A i \in 1..Len(orders), z \in SizeKeys :
            ConfirmedCut(orders[i].groupId, z) <= GroupOrdered(orders[i].groupId, z)
                => OrderUsed(orders[i], z) <= orders[i].sizes[z]

\* two orders of a group, the cut within the ordered quantity: the first
\* order is filled and the rest goes to the second
DemandCapWitness ==
    /\ Rendered
    /\ \E i, j \in 1..Len(orders) :
          /\ i < j
          /\ orders[i].groupId = orders[j].groupId
          /\ ConfirmedCut(orders[i].groupId, "s") <= GroupOrdered(orders[i].groupId, "s")
          /\ OrderUsed(orders[i], "s") = orders[i].sizes["s"]
          /\ OrderUsed(orders[j], "s") > 0

\* C6 - Normal before defective: a defective quantity of a size is used from
\* the entries of a product and colour only when every active entry of that
\* product and colour has its whole normal quantity of the size used.
NormalBeforeDefective ==
    Rendered =>
        \A p \in Products, c \in EntryColors, z \in SizeKeys :
            UsedDefectiveOfKey(p, c, z) > 0 =>
                \A i \in 1..Len(stockEntries) :
                    (stockEntries[i].productName = p /\ stockEntries[i].color = c)
                        => UsedNormalOfEntry(stockEntries[i], z) = stockEntries[i].normalSizes[z]

\* the first entry of a bucket holds the defective quantity that is used, the
\* second one normal quantity, and two groups are served from the bucket
NormalBeforeDefectiveWitness ==
    /\ Rendered
    /\ \E i, j \in 1..Len(stockEntries) :
          /\ i < j
          /\ stockEntries[i].productName = stockEntries[j].productName
          /\ stockEntries[i].color = stockEntries[j].color
          /\ UsedDefectiveOfEntry(stockEntries[i], "s") > 0
          /\ stockEntries[j].normalSizes["s"] > 0
    /\ Cardinality({g \in GroupIds : GroupUsed(g, "s") > 0}) = 2

\* the earliest createdDate among the orders of a group that has orders
EarliestCreated(g) ==
    LET os == ordersByGroup(orders, g)
    IN CHOOSE t \in {os[i].createdDate : i \in 1..Len(os)} :
          \A i \in 1..Len(os) : t <= os[i].createdDate

\* the group has orders and a confirmed report of the product and colour
ServedFrom(g, p, c) ==
    /\ ordersByGroup(orders, g) # <<>>
    /\ \E i \in 1..Len(cuttingReports) :
          /\ cuttingReports[i].groupId = g
          /\ cuttingReports[i].isConfirmed
          /\ cuttingReports[i].productName = p
          /\ cuttingReports[i].color = c

\* C4 - Group service order: of two groups that draw on the stock of one
\* product and colour, the one whose earliest order was created first is
\* served first, for every ordering of the orders array: the later group gets
\* a quantity of a size only if the earlier group got its whole cut of it.
GroupServiceOrder ==
    Rendered =>
        \A x, y \in GroupIds, z \in SizeKeys :
            (/\ \E i \in 1..Len(cuttingReports) :
                   /\ ServedFrom(x, cuttingReports[i].productName, cuttingReports[i].color)
                   /\ ServedFrom(y, cuttingReports[i].productName, cuttingReports[i].color)
             /\ EarliestCreated(x) < EarliestCreated(y)
             /\ GroupUsed(y, z) > 0)
                => GroupUsed(x, z) = ConfirmedCut(x, z)

\* C5 - FIFO: for two active stock entries A and B of the same product and
\* colour, A dated strictly before B, and any size: if a normal quantity of
\* B is used then the whole normal quantity of A is used, and the same for
\* the defective quantities.
Fifo ==
    Rendered =>
        \A a, b \in 1..Len(stockEntries), z \in SizeKeys :
            (/\ stockEntries[a].productName = stockEntries[b].productName
             /\ stockEntries[a].color = stockEntries[b].color
             /\ stockEntries[a].date < stockEntries[b].date)
                => /\ UsedNormalOfEntry(stockEntries[b], z) > 0
                        => UsedNormalOfEntry(stockEntries[a], z) = stockEntries[a].normalSizes[z]
                   /\ UsedDefectiveOfEntry(stockEntries[b], z) > 0
                        => UsedDefectiveOfEntry(stockEntries[a], z)
                              = stockEntries[a].defectiveSizes[z]

\* the older entry comes later in the array, is used up, and the newer one is
\* used for the rest
FifoWitness ==
    /\ Rendered
    /\ \E a, b \in 1..Len(stockEntries) :
          /\ b < a
          /\ stockEntries[a].date < stockEntries[b].date
          /\ stockEntries[a].normalSizes["s"] > 0
          /\ UsedNormalOfEntry(stockEntries[a], "s") = stockEntries[a].normalSizes["s"]
          /\ UsedNormalOfEntry(stockEntries[b], "s") > 0
          /\ UsedNormalOfEntry(stockEntries[b], "s") < stockEntries[b].normalSizes["s"]
          /\ UsedDefectiveOfEntry(stockEntries[b], "s") = 0

\* C7 - Determinism: two runs of calculateStockUsage on the identical
\* snapshot return identical lists, the same records in the same order with
\* every field equal, the id included.
Idempotence ==
    renders >= 2 => stockUsage = prevStockUsage

\* C16 - The list returned by calculateStockUsage holds at most one record
\* for an (orderId, stockEntryId) pair, and the record carries what the pair
\* got of every size, normal and defective: usedSizes is their sum.
OneRecordPerPair ==
    Rendered =>
        /\ \A i, j \in 1..Len(stockUsage) :
               (/\ stockUsage[i].orderId = stockUsage[j].orderId
                /\ stockUsage[i].stockEntryId = stockUsage[j].stockEntryId) => i = j
        /\ \A i \in 1..Len(stockUsage), z \in SizeKeys :
               stockUsage[i].usedSizes[z]
                   = stockUsage[i].usedNormalSizes[z] + stockUsage[i].usedDefectiveSizes[z]

\* an order draws on two entries, and from one of them a normal quantity of
\* one size and a defective quantity of another: one record for each entry
OneRecordPerPairWitness ==
    /\ Rendered
    /\ Len(stockUsage) = 2
    /\ stockUsage[1].orderId = stockUsage[2].orderId
    /\ \E i \in 1..Len(stockUsage) :
          /\ stockUsage[i].usedNormalSizes["s"] > 0
          /\ stockUsage[i].usedDefectiveSizes["m"] > 0
          /\ stockUsage[i].usedSizes["s"] > 0
          /\ stockUsage[i].usedSizes["m"] > 0

----------------------------------------------------------------------------
(* The status resolver *)

NowValues == Dates \cup {3}

TotalUsed(g) == SumUsage(LAMBDA u : InGroup(u, g), LAMBDA u : SumSizes(u.usedSizes))

TotalConfirmedCut(g) ==
    LET rs == SelectSeq(cuttingReports, LAMBDA r : r.isConfirmed /\ r.groupId = g)
    IN SumSeq([i \in 1..Len(rs) |-> SumSizes(rs[i].sizes)])

HasConfirmedReport(g) ==
    \E i \in 1..Len(cuttingReports) : cuttingReports[i].groupId = g /\ cuttingReports[i].isConfirmed

CompletionCondition(g) ==
    HasConfirmedReport(g) /\ TotalConfirmedCut(g) > 0 /\ TotalUsed(g) >= TotalConfirmedCut(g)

\* the active stock entries that some usage record of the group refers to
Contributors(g) ==
    {i \in 1..Len(stockEntries) :
        \E k \in 1..Len(stockUsage) :
            InGroup(stockUsage[k], g) /\ stockUsage[k].stockEntryId = stockEntries[i].id}

IsLatestContribution(g, t) ==
    /\ \E i \in Contributors(g) : stockEntries[i].date = t
    /\ \A i \in Contributors(g) : stockEntries[i].date <= t

\* C8 - An order stored as cancelled is returned by the resolver with its
\* status and completionDate unchanged, whatever the usage and the reports.
CancelledUntouched ==
    Rendered =>
        \A now \in NowValues :
            LET derived == derivedOrders(now)
            IN \A i \in 1..Len(orders) :
                   orders[i].status = Cancelled
                       => /\ derived[i].status = Cancelled
                          /\ derived[i].completionDate = orders[i].completionDate

\* a cancelled order in a group that meets the completion condition, next to
\* an order of the group that the resolver reports completed
CancelledUntouchedWitness ==
    /\ Rendered
    /\ \E i, j \in 1..Len(orders) :
          /\ orders[i].status = Cancelled
          /\ orders[j].groupId = orders[i].groupId
          /\ orders[j].status = PendingCut
          /\ CompletionCondition(orders[i].groupId)
          /\ derivedOrders(3)[j].status = Completed

\* C9 - For every order not stored as cancelled, the resolved status is
\* completed exactly when the group has a confirmed report, its confirmed cut
\* is above 0 and the quantity used by the group is at least that cut.
CompletedIff ==
    Rendered =>
        \A now \in NowValues :
            LET derived == derivedOrders(now)
            IN \A i \in 1..Len(orders) :
                   orders[i].status # Cancelled
                       => (derived[i].status = Completed
                               <=> CompletionCondition(orders[i].groupId))

\* one order becomes completed with the used quantity equal to the cut; an
\* order stored as completed, of a group served less than its cut, does not
CompletedIffWitness ==
    /\ Rendered
    /\ \E i, j \in 1..Len(orders) :
          /\ orders[i].status = PendingCut
          /\ TotalUsed(orders[i].groupId) = TotalConfirmedCut(orders[i].groupId)
          /\ derivedOrders(3)[i].status = Completed
          /\ orders[j].status = Completed
          /\ HasConfirmedReport(orders[j].groupId)
          /\ TotalUsed(orders[j].groupId) > 0
          /\ TotalUsed(orders[j].groupId) < TotalConfirmedCut(orders[j].groupId)
          /\ derivedOrders(3)[j].status = InProgress

\* C10 - For every order not stored as cancelled that the resolver reports
\* completed, whatever its stored status and completionDate, the reported
\* completionDate is the latest date among the stock entries that
\* contributed usage to the order's group.
CompletionDateIsLatest ==
    Rendered =>
        \A now \in NowValues :
            LET derived == derivedOrders(now)
            IN \A i \in 1..Len(orders) :
                   (orders[i].status # Cancelled /\ derived[i].status = Completed)
                       => IsLatestContribution(orders[i].groupId, derived[i].completionDate)

\* C10 as amended - an order stored as completed keeps its stored
\* completionDate; every other order not stored as cancelled that the
\* resolver reports completed gets the latest date among the stock entries
\* that contributed usage to its group.
CompletionDateOnTransition ==
    Rendered =>
        \A now \in NowValues :
            LET derived == derivedOrders(now)
            IN \A i \in 1..Len(orders) :
                   (orders[i].status # Cancelled /\ derived[i].status = Completed)
                       => IF orders[i].status = Completed
                          THEN derived[i].completionDate = orders[i].completionDate
                          ELSE IsLatestContribution(orders[i].groupId, derived[i].completionDate)

\* an order becomes completed while a stock entry dated after the group's
\* only contributor is active, and an order stored as completed stays so
CompletionDateWitness ==
    /\ Rendered
    /\ \E i, j \in 1..Len(orders) :
          /\ orders[i].status = PendingCut
          /\ derivedOrders(3)[i].status = Completed
          /\ \E e \in 1..Len(stockEntries) :
                /\ e \notin Contributors(orders[i].groupId)
                /\ \A k \in Contributors(orders[i].groupId) :
                      stockEntries[k].date < stockEntries[e].date
          /\ orders[j].status = Completed
          /\ derivedOrders(3)[j].status = Completed

\* C11 - An order stored as completed, not cancelled, whose group does not
\* meet the completion condition (no confirmed report, a confirmed cut of 0,
\* or less used than cut) is reported in-progress with no completionDate.
CompletedReverts ==
    Rendered =>
        \A now \in NowValues :
            LET derived == derivedOrders(now)
            IN \A i \in 1..Len(orders) :
                   (orders[i].status = Completed /\ ~CompletionCondition(orders[i].groupId))
                       => /\ derived[i].status = InProgress
                          /\ derived[i].completionDate = NoDate

\* two orders stored as completed with a completion date: the group of one
\* has a confirmed cut and is served less, the group of the other has no
\* confirmed report; both are reported in-progress without a date
CompletedRevertsWitness ==
    /\ Rendered
    /\ \E i, j \in 1..Len(orders) :
          /\ orders[i].status = Completed /\ orders[i].completionDate # NoDate
          /\ HasConfirmedReport(orders[i].groupId)
          /\ TotalUsed(orders[i].groupId) > 0
          /\ TotalUsed(orders[i].groupId) < TotalConfirmedCut(orders[i].groupId)
          /\ orders[j].status = Completed /\ orders[j].completionDate # NoDate
          /\ ~HasConfirmedReport(orders[j].groupId)
          /\ derivedOrders(3)[i].status = InProgress
          /\ derivedOrders(3)[i].completionDate = NoDate
          /\ derivedOrders(3)[j].status = InProgress
          /\ derivedOrders(3)[j].completionDate = NoDate

\* C12 - An order stored as pending-cut whose group does not meet the
\* completion condition is reported in-progress when the group has a
\* confirmed report and pending-cut when it has none; an order stored as
\* in-progress whose group does not meet the condition stays in-progress.
PendingAndInProgress ==
    Rendered =>
        \A now \in NowValues :
            LET derived == derivedOrders(now)
            IN \A i \in 1..Len(orders) :
                   ~CompletionCondition(orders[i].groupId)
                       => /\ orders[i].status = PendingCut
                               => derived[i].status = IF HasConfirmedReport(orders[i].groupId)
                                                      THEN InProgress ELSE PendingCut
                          /\ orders[i].status = InProgress => derived[i].status = InProgress

\* a pending-cut order of a group with a confirmed cut that is not fully
\* served becomes in-progress, next to a pending-cut order of a group with
\* only an unconfirmed report, which stays pending-cut
PendingAndInProgressWitness ==
    /\ Rendered
    /\ \E i, j \in 1..Len(orders) :
          /\ orders[i].status = PendingCut
          /\ HasConfirmedReport(orders[i].groupId)
          /\ ~CompletionCondition(orders[i].groupId)
          /\ derivedOrders(3)[i].status = InProgress
          /\ orders[j].status = PendingCut
          /\ ~HasConfirmedReport(orders[j].groupId)
          /\ \E k \in 1..Len(cuttingReports) : cuttingReports[k].groupId = orders[j].groupId
          /\ derivedOrders(3)[j].status = PendingCut

----------------------------------------------------------------------------
(* Reassignment *)

Reassigned == call.op = "reassignMultipleParts" /\ call.applied

Target == targetProducerOf(call.newProducerName)

IdsOf(os) == {os[i].id : i \in 1..Len(os)}

\* the parts of the call whose source row has another producer than the
\* target and a quantity above 0 at the size
MovedParts ==
    {part \in {call.parts[k] : k \in 1..Len(call.parts)} :
        /\ HasOrder(prevOrders, part.orderId)
        /\ FindOrder(prevOrders, part.orderId).producer # Target
        /\ FindOrder(prevOrders, part.orderId).sizes[part.size] > 0}

\* the quantity of a size that the rows of a group and producer hold
HeldBy(os, g, producer, z) ==
    LET rows == SelectSeq(os, LAMBDA o : o.groupId = g /\ o.producer = producer)
    IN SumSeq([i \in 1..Len(rows) |-> rows[i].sizes[z]])

\* the quantity of a size that the moved parts of a group take along
MovedInto(g, z) ==
    LET rows == SelectSeq(prevOrders,
                          LAMBDA o : /\ o.groupId = g
                                     /\ [orderId |-> o.id, size |-> z] \in MovedParts)
    IN SumSeq([i \in 1..Len(rows) |-> rows[i].sizes[z]])

AffectedGroups == groupIdsOf(prevOrders, call.parts)

NewRows == {i \in 1..Len(orders) : orders[i].id \notin IdsOf(prevOrders)}

ReassignIntoExisting ==
    /\ Reassigned
    /\ NewRows = {}
    /\ \E a \in MovedParts :
          LET row == FindOrder(prevOrders, a.orderId)
          IN /\ HeldBy(prevOrders, row.groupId, Target, a.size) > 0
             /\ HeldBy(orders, row.groupId, Target, a.size)
                   = HeldBy(prevOrders, row.groupId, Target, a.size) + row.sizes[a.size]

\* C14 - After reassignMultipleParts, every row of every affected group has
\* a totalQuantity equal to the sum of its sizes, and none has totalQuantity 0.
ReassignTotals ==
    Reassigned =>
        \A i \in 1..Len(orders) :
            orders[i].groupId \in AffectedGroups
                => /\ orders[i].totalQuantity = SumSizes(orders[i].sizes)
                   /\ orders[i].totalQuantity > 0

\* the move empties a source row, which is gone, and raises the total of a
\* row that was there before
ReassignTotalsWitness ==
    /\ Reassigned
    /\ \E part \in MovedParts :
          /\ ~HasOrder(orders, part.orderId)
          /\ \E i \in 1..Len(orders) :
                /\ orders[i].groupId = FindOrder(prevOrders, part.orderId).groupId
                /\ HasOrder(prevOrders, orders[i].id)
                /\ orders[i].totalQuantity > FindOrder(prevOrders, orders[i].id).totalQuantity

\* a producer that is the target: the same value, or an unassigned row
\* (producer absent or null) with the target 'UNASSIGNED'
EqualsTarget(producer) ==
    \/ producer = Target
    \/ producer \in {Undefined, Null} /\ call.newProducerName = UNASSIGNED

RowSet(os) ==
    {[id |-> os[i].id, producer |-> os[i].producer, sizes |-> os[i].sizes,
      totalQuantity |-> os[i].totalQuantity] : i \in 1..Len(os)}

\* C15 - Reassignment of parts whose source rows already have the target as
\* producer, an unassigned row (producer absent or null) with the target
\* 'UNASSIGNED' included, leaves the set of rows (ids, producers, sizes,
\* totalQuantity) as it was.
ReassignNoOp ==
    (/\ Reassigned
     /\ \A k \in 1..Len(call.parts) :
            HasOrder(prevOrders, call.parts[k].orderId)
                => EqualsTarget(FindOrder(prevOrders, call.parts[k].orderId).producer))
        => RowSet(orders) = RowSet(prevOrders)

----------------------------------------------------------------------------
(* Unconfirmed reports *)

WithoutUnconfirmed == SelectSeq(cuttingReports, LAMBDA r : r.isConfirmed)

\* the records of a usage list without their ids
Quantities(usage) ==
    [i \in 1..Len(usage) |->
        [orderId |-> usage[i].orderId, stockEntryId |-> usage[i].stockEntryId,
         usedSizes |-> usage[i].usedSizes, usedNormalSizes |-> usage[i].usedNormalSizes,
         usedDefectiveSizes |-> usage[i].usedDefectiveSizes]]

\* C17 - Unconfirmed reports contribute nothing: the usage list (the same
\* records in the same order, the drawn ids aside) and the resolved status
\* and completionDate of every order are those of the same input without
\* its unconfirmed reports.
UnconfirmedContributeNothing ==
    Rendered =>
        LET usage == calculateStockUsage(orders, stockEntries, WithoutUnconfirmed, 1)
        IN /\ Quantities(stockUsage) = Quantities(usage)
           /\ \A now \in NowValues :
                  LET derived == derivedOrders(now)
                      without == DerivedOrders(isLoaded, orders, usage, WithoutUnconfirmed,
                                               stockEntries, now)
                  IN \A i \in 1..Len(orders) :
                         /\ derived[i].status = without[i].status
                         /\ derived[i].completionDate = without[i].completionDate

\* one group has an unconfirmed report between its confirmed ones and gets
\* its confirmed cut, the other has only an unconfirmed report and an order
\* that stays pending-cut, and stock that the unconfirmed cuts ask for is left
UnconfirmedContributeNothingWitness ==
    /\ Rendered
    /\ \E i, j \in 1..Len(orders) :
          /\ GroupUsed(orders[i].groupId, "s") = ConfirmedCut(orders[i].groupId, "s")
          /\ ConfirmedCut(orders[i].groupId, "s") > 0
          /\ \E k \in 1..Len(cuttingReports) :
                /\ cuttingReports[k].groupId = orders[i].groupId
                /\ ~cuttingReports[k].isConfirmed
                /\ cuttingReports[k].sizes["s"] > 0
          /\ ~HasConfirmedReport(orders[j].groupId)
          /\ \E k \in 1..Len(cuttingReports) :
                /\ cuttingReports[k].groupId = orders[j].groupId
                /\ cuttingReports[k].sizes["s"] > 0
          /\ derivedOrders(3)[j].status = PendingCut
          /\ derivedOrders(3)[i].status = Completed
    /\ \E e \in 1..Len(stockEntries) :
          UsedNormalOfEntry(stockEntries[e], "s") < stockEntries[e].normalSizes["s"]

----------------------------------------------------------------------------
(* Archived entries *)

ArchivedIds == {allStockEntries[i].id : i \in {j \in 1..Len(allStockEntries) :
                                                   allStockEntries[j].isArchived}}

\* C18 - After any sequence of addStockEntries, archiveStockEntry and
\* restoreStockEntry, no usage record refers to an archived entry, and the
\* quantity used of a product, colour and size is at most what the entries
\* that are not archived hold.
ArchivedUnused ==
    /\ \A k \in 1..Len(stockUsage) : stockUsage[k].stockEntryId \notin ArchivedIds
    /\ \A p \in Products, c \in EntryColors, z \in SizeKeys :
           /\ UsedNormalOfKey(p, c, z) <= StockNormalOfKey(p, c, z)
           /\ UsedDefectiveOfKey(p, c, z) <= StockDefectiveOfKey(p, c, z)

\* an entry that was used is archived: its records are gone, the order gets
\* less than the cut, and only the entry that is left is used
ArchivedUnusedWitness ==
    /\ call.op = "archiveStockEntry" /\ call.applied
    /\ \E k \in 1..Len(prevStockUsage) : prevStockUsage[k].stockEntryId = call.id
    /\ call.id \in ArchivedIds
    /\ Len(stockUsage) = 1
    /\ GroupUsed(GroupA, "s") < ConfirmedCut(GroupA, "s")

----------------------------------------------------------------------------
(* Defect aggregation *)

\* the usage records of an existing order, drawn from an entry with the
\* defect reason
RecordsOfReason(reason) ==
    SelectSeq(stockUsage,
              LAMBDA u : /\ HasOrder(orders, u.orderId)
                         /\ HasEntry(allStockEntries, u.stockEntryId)
                         /\ FindEntry(allStockEntries, u.stockEntryId).defectReason = reason)

DefectiveOf(records) ==
    SumSeq([i \in 1..Len(records) |-> SumSizes(records[i].usedDefectiveSizes)])

ProducerNames == {producerNameOf(orders[i]) : i \in 1..Len(orders)}

RECURSIVE SumOver(_, _)
SumOver(f, S) ==
    IF S = {} THEN 0 ELSE LET x == CHOOSE y \in S : TRUE IN f[x] + SumOver(f, S \ {x})

\* C19 - Defect aggregation: the total of a defect reason is the sum of the
\* usedDefectiveSizes, over all sizes, of the usage records whose order
\* exists and whose stock entry has the reason; the breakdown gives each of
\* these records to the producer of its order, or to the unassigned bucket,
\* and its values sum to the total.
DefectAggregation ==
    Rendered =>
        \A reason \in DefectReasons :
            LET data == usageData(orders, allStockEntries, stockUsage, reason)
                records == RecordsOfReason(reason)
            IN /\ data.total = DefectiveOf(records)
               /\ \A name \in ProducerNames :
                      data.byProducer[name]
                          = DefectiveOf(SelectSeq(records,
                                LAMBDA u : producerNameOf(FindOrder(orders, u.orderId)) = name))
               /\ SumOver(data.byProducer, DOMAIN data.byProducer) = data.total

\* defective pieces of one reason go to the order of a workshop and to an
\* unassigned order, next to used normal stock and used defective stock
\* without a reason
DefectAggregationWitness ==
    /\ Rendered
    /\ \E reason \in DefectReasons :
          LET data == usageData(orders, allStockEntries, stockUsage, reason)
          IN /\ {Workshop, Unassigned} \subseteq DOMAIN data.byProducer
             /\ data.byProducer[Workshop] > 0
             /\ data.byProducer[Unassigned] > 0
             /\ data.total = data.byProducer[Workshop] + data.byProducer[Unassigned]
             /\ data.total < SumUsage(LAMBDA u : TRUE, LAMBDA u : SumSizes(u.usedSizes))

----------------------------------------------------------------------------
(* Group identity *)

\* C20: all order rows that share a groupId have the same productName and
\* the same color.
SameGroupSameProduct ==
    \A i, j \in 1..Len(orders) :
        orders[i].groupId = orders[j].groupId
            => /\ orders[i].productName = orders[j].productName
               /\ orders[i].color = orders[j].color

----------------------------------------------------------------------------
(* Defect reasons of stock entries *)

\* C21: every stock entry with a defective quantity above 0 has a
\* defectReason.
DefectiveHasReason ==
    \A i \in 1..Len(allStockEntries) :
        SumSizes(allStockEntries[i].defectiveSizes) > 0
            => allStockEntries[i].defectReason # Undefined

----------------------------------------------------------------------------
(* Producers *)

\* C22: no two producers of the snapshot have the same name.
ProducerNamesUnique ==
    \A i, j \in 1..Len(producers) :
        producers[i].name = producers[j].name => i = j

\* C30: the producer of every order is absent or the name of a producer of
\* the snapshot.
OrdersReferToProducers ==
    \A i \in 1..Len(orders) :
        \/ orders[i].producer \in {Undefined, Null}
        \/ \E k \in 1..Len(producers) : producers[k].name = orders[i].producer

----------------------------------------------------------------------------
(* Overflow *)

\* the quantity of a size the only group takes from the stock of its product
\* and colour
TakenBy(g, z) ==
    LET rs == SelectSeq(cuttingReports, LAMBDA x : x.isConfirmed /\ x.groupId = g)
        r == rs[1]
    IN Min(ConfirmedCut(g, z),
           StockNormalOfKey(r.productName, r.color, z)
               + StockDefectiveOfKey(r.productName, r.color, z))

\* C23: when the quantity taken for a group and size exceeds what the
\* group's orders ask of the size, the first order of the group is used for
\* its own quantity plus the whole excess, every other order for exactly its
\* own quantity, and the usage of the group sums to the quantity taken.
OverflowToFirst ==
    Rendered =>
        \A g \in GroupIds, z \in SizeKeys :
            LET os == ordersByGroup(orders, g)
            IN (ConfirmedCut(g, z) > 0 /\ os # <<>> /\ TakenBy(g, z) > GroupOrdered(g, z))
                   => /\ OrderUsed(os[1], z)
                            = os[1].sizes[z] + (TakenBy(g, z) - GroupOrdered(g, z))
                      /\ \A i \in 2..Len(os) : OrderUsed(os[i], z) = os[i].sizes[z]
                      /\ GroupUsed(g, z) = TakenBy(g, z)

\* two orders, and more is taken, from two entries, than both ask
OverflowToFirstWitness ==
    /\ Rendered
    /\ Len(orders) = 2
    /\ Len(stockEntries) = 2
    /\ TakenBy(GroupA, "s") > GroupOrdered(GroupA, "s")
    /\ OrderUsed(orders[1], "s") > orders[1].sizes["s"]
    /\ OrderUsed(orders[2], "s") = orders[2].sizes["s"]
    /\ Len(stockUsage) > 2

----------------------------------------------------------------------------
(* What a group takes from its bucket *)

\* the groups with a confirmed cut in the order the loop serves them
ProcessingOrder == sortedGroupIds(orders, cutQuantitiesByGroup(cuttingReports))

SameBucket(a, b) == a.productName = b.productName /\ a.color = b.color

\* the smaller of the confirmed cut of the k-th group and of what the groups
\* before it have left in its bucket; nothing for a group without orders
RECURSIVE ExpectedTaken(_, _, _)
ExpectedTaken(po, k, z) ==
    LET c == po[k]
        before == SumSeq([j \in 1..(k - 1) |->
                             IF SameBucket(po[j], c) THEN ExpectedTaken(po, j, z) ELSE 0])
    IN IF ordersByGroup(orders, c.groupId) = <<>> THEN 0
       ELSE Min(ConfirmedCut(c.groupId, z),
                StockNormalOfKey(c.productName, c.color, z)
                    + StockDefectiveOfKey(c.productName, c.color, z) - before)

\* C25: for every group with a confirmed cut, in the order the groups are
\* served, and every size, the usage of the group's orders sums to the
\* smaller of the confirmed cut and of the normal plus defective quantity
\* left in the group's bucket; a group without orders takes nothing, so the
\* usage of a bucket is the sum of what the groups with orders take.
GroupTakesMin ==
    Rendered =>
        LET po == ProcessingOrder
        IN \A z \in SizeKeys :
              LET taken == [k \in 1..Len(po) |-> ExpectedTaken(po, k, z)]
              IN /\ \A k \in 1..Len(po) : GroupUsed(po[k].groupId, z) = taken[k]
                 /\ \A p \in Products, c \in EntryColors :
                        UsedNormalOfKey(p, c, z) + UsedDefectiveOfKey(p, c, z)
                            = SumSeq([k \in 1..Len(po) |->
                                         IF po[k].productName = p /\ po[k].color = c
                                         THEN taken[k] ELSE 0])

\* the second group served finds less in the bucket than its cut, part of it
\* defective
GroupTakesMinWitness ==
    /\ Rendered
    /\ Len(ProcessingOrder) = 2
    /\ ExpectedTaken(ProcessingOrder, 1, "s") > 0
    /\ ExpectedTaken(ProcessingOrder, 2, "s") > 0
    /\ ExpectedTaken(ProcessingOrder, 2, "s") < ConfirmedCut(ProcessingOrder[2].groupId, "s")
    /\ GroupUsed(ProcessingOrder[2].groupId, "s") = ExpectedTaken(ProcessingOrder, 2, "s")
    /\ UsedDefectiveOfKey("gomlek", "MAVI", "s") > 0

----------------------------------------------------------------------------
(* Bucket keys *)

\* C26: the order and the stock entry of every usage record have the same
\* productName and the same color.
UsageLinksSameProduct ==
    Rendered =>
        \A i \in 1..Len(stockUsage) :
            \A o \in 1..Len(orders), e \in 1..Len(allStockEntries) :
                (orders[o].id = stockUsage[i].orderId
                 /\ allStockEntries[e].id = stockUsage[i].stockEntryId)
                    => /\ orders[o].productName = allStockEntries[e].productName
                       /\ orders[o].color = allStockEntries[e].color

----------------------------------------------------------------------------
(* Reassignment conserves the ordered quantity *)

GroupsOf(os) == {os[i].groupId : i \in 1..Len(os)}

OrderedOf(os, g, z) ==
    LET rows == ordersByGroup(os, g) IN SumSeq([i \in 1..Len(rows) |-> rows[i].sizes[z]])

\* the groups of the rows that the parts of the call name
NamedGroups ==
    {prevOrders[i].groupId : i \in {j \in 1..Len(prevOrders) :
        \E k \in 1..Len(call.parts) : call.parts[k].orderId = prevOrders[j].id}}

\* C27: after reassignMultipleParts, for every group a part names and every
\* size, the rows of the group hold the same quantity in sum as before, and
\* the rows of every other group are the rows they were.
ReassignConserves ==
    Reassigned =>
        \A g \in GroupsOf(prevOrders) \cup GroupsOf(orders) :
            IF g \in NamedGroups
            THEN \A z \in SizeKeys : OrderedOf(orders, g, z) = OrderedOf(prevOrders, g, z)
            ELSE ordersByGroup(orders, g) = ordersByGroup(prevOrders, g)

\* two parts of two groups, both moved to rows that the call creates
ReassignConservesWitness ==
    /\ Reassigned
    /\ Len(call.parts) = 2
    /\ Cardinality(NamedGroups) = 2
    /\ Cardinality(MovedParts) = 2
    /\ Cardinality(NewRows) = 2

\* a part named twice, its quantity added to a row that held some, while the
\* rows of the other group stay
ReassignTwiceWitness ==
    /\ Reassigned
    /\ Len(call.parts) = 2
    /\ call.parts[1] = call.parts[2]
    /\ Cardinality(MovedParts) = 1
    /\ NewRows = {}
    /\ orders # prevOrders

----------------------------------------------------------------------------
(* The proportional split of an edited group *)

\* C28: after syncProductColorOrders, for every size the rows of the edited
\* group hold in sum the quantity that the edit asks for the size.
SyncKeepsTotal ==
    (call.op = "syncProductColorOrders" /\ call.applied) =>
        \A z \in SizeKeys :
            OrderedOf(orders, call.originalOrders[1].groupId, z)
                = SumSeq([i \in 1..Len(call.newOrdersData) |-> call.newOrdersData[i].sizes[z]])

----------------------------------------------------------------------------
(* The client's orders and the server's rows *)

\* the rows as the database holds them, in no order
StoredRows(os) == {Refreshed(os[i]) : i \in 1..Len(os)}

\* C29: the orders of the snapshot are the rows that the server stores, also
\* after a reassignment that the server answered with status 500.
ClientHoldsServerRows == StoredRows(orders) = StoredRows(db.orders)

----------------------------------------------------------------------------
(* Requests on the one connection *)

Finished(req) == req.pc \in {"done", "crashed"}

\* C24: once every request has finished, each request has applied all of its
\* deletes and inserts or none of them.
AllOrNothing ==
    (\A r \in 1..Len(requests) : Finished(requests[r]))
        => \A r \in 1..Len(requests) :
              requests[r].applied \in {{}, 1..statementsOf(requests[r])}

====
